--------------------------- MODULE StreamLoopProofs ---------------------------
(***************************************************************************)
(* Theorems about StreamLoop, for any bound on the messages.  Two facts     *)
(* carry the properties: every reader but the last is gone (ReadersInv),    *)
(* and what the websocket has handed out is what dispatchLoop has handled   *)
(* plus at most the message in hand (InHandInv).                            *)
(***************************************************************************)
EXTENDS StreamLoop, TLAPS, FiniteSetTheorems

\* Reader n belongs to the n-th call of readMessage; only the reader of the
\* last call may be alive, and it is while the loop waits in its select.
ReaderOf(n) ==
    /\ n > calls => reader[n] = "off"
    /\ n < calls => reader[n] = "gone"
    /\ n = calls /\ loop \in {"read", "got"} => reader[n] = "gone"
    /\ n = calls /\ loop = "select" => reader[n] \in {"reading", "offering"}

ReadersInv ==
    /\ \A n \in Call : ReaderOf(n)
    /\ loop = "select" => calls > 0

\* The result holds the message that was handed out last.
HoldsLast(res) == res = [kind |-> sentMsgs[taken], n |-> taken]

\* A message that was handed out but not handled is in the last reader's
\* result or in dispatchLoop's hand.
InHandInv ==
    /\ Len(handled) <= taken
    /\ loop = "read" => taken = Len(handled)
    /\ loop = "got" => taken = Len(handled) + 1 /\ HoldsLast(got)
    /\ loop = "select" =>
        \/ reader[calls] = "reading" /\ taken = Len(handled)
        \/ reader[calls] = "offering" /\ taken = Len(handled)
                                      /\ result[calls] = NoResult
        \/ reader[calls] = "offering" /\ taken = Len(handled) + 1
                                      /\ HoldsLast(result[calls])

SafetyInv == TypeOK /\ ReadersInv /\ InHandInv /\ HandledInOrder

-----------------------------------------------------------------------------
\* The initial states satisfy the invariant.
LEMMA InitSafe == Init => SafetyInv
<1> SUFFICES ASSUME Init PROVE SafetyInv
    OBVIOUS
<1> USE MaxMsgsAssumption DEF Init, Call
<1>1. TypeOK
    <2>1. NoResult \in Result
        BY DEF NoResult, Result
    <2>2. /\ sentMsgs \in Seq(Kind) /\ Len(sentMsgs) <= MaxMsgs
          /\ taken \in 0 .. Len(sentMsgs)
        OBVIOUS
    <2>3. handled \in Seq([n : Nat, kind : Kind, dispatched : BOOLEAN])
        OBVIOUS
    <2>4. calls \in 0 .. MaxMsgs + 2
        OBVIOUS
    <2>5. /\ reader \in [Call -> {"off", "reading", "offering", "gone"}]
          /\ result \in [Call -> Result] /\ got \in Result
        BY <2>1
    <2> QED
        BY <2>2, <2>3, <2>4, <2>5 DEF TypeOK
<1>2. ReadersInv
    BY DEF ReadersInv, ReaderOf
<1>3. InHandInv /\ HandledInOrder
    BY DEF InHandInv, HandledInOrder
<1> QED
    BY <1>1, <1>2, <1>3 DEF SafetyInv

\* Every step keeps the types.
LEMMA TypeStep == TypeOK /\ ReadersInv /\ InHandInv /\ [Next]_vars => TypeOK'
<1> SUFFICES ASSUME TypeOK, ReadersInv, InHandInv, [Next]_vars PROVE TypeOK'
    OBVIOUS
<1> USE MaxMsgsAssumption DEF TypeOK, Call, Result, NoResult, Kind
<1>1. ASSUME NEW kind \in Kind, ClientSends(kind) PROVE TypeOK'
    BY <1>1 DEF ClientSends
<1>2. CASE ClientLeaves
    BY <1>2 DEF ClientLeaves
<1>3. CASE WriterCancels
    BY <1>3 DEF WriterCancels
<1>4. CASE StartRead
    BY <1>4 DEF StartRead
<1>5. CASE Receive
    BY <1>5 DEF Receive, ReadersInv
<1>6. CASE ContextDone
    BY <1>6 DEF ContextDone
<1>7. CASE HandleMessage
    BY <1>7 DEF HandleMessage, InHandInv, HoldsLast, Decodes, TargetIsPointer
<1>8. CASE CloseConn
    BY <1>8 DEF CloseConn
<1>9. ASSUME NEW n \in Call, ReaderGets(n) PROVE TypeOK'
    <2>1. taken + 1 \in 1 .. Len(sentMsgs) /\ sentMsgs[taken + 1] \in Kind
        BY <1>9 DEF ReaderGets
    <2>2. [kind |-> sentMsgs[taken + 1], n |-> taken + 1] \in Result
        BY <2>1
    <2>3. result' \in [Call -> Result] /\ taken' \in 0 .. Len(sentMsgs')
        <3> HIDE DEF Result
        <3> QED
            BY <1>9, <2>1, <2>2 DEF ReaderGets
    <2>4. /\ reader' \in [Call -> {"off", "reading", "offering", "gone"}]
          /\ UNCHANGED <<loop, calls, got, ctxDone, peerGone, sentMsgs, handled>>
        BY <1>9 DEF ReaderGets
    <2> QED
        BY <2>3, <2>4
<1>10. ASSUME NEW n \in Call, ReaderFails(n) PROVE TypeOK'
    BY <1>10 DEF ReaderFails
<1>11. CASE UNCHANGED vars
    BY <1>11 DEF vars
<1> HIDE DEF TypeOK
<1> QED
    BY <1>1, <1>2, <1>3, <1>4, <1>5, <1>6, <1>7, <1>8, <1>9, <1>10, <1>11
    DEF Next, LoopStep, ReaderStep, Finished

\* A new reader is started only when the one before is gone.
LEMMA ReadersStep == TypeOK /\ ReadersInv /\ [Next]_vars => ReadersInv'
<1> SUFFICES ASSUME TypeOK, ReadersInv, [Next]_vars PROVE ReadersInv'
    OBVIOUS
<1> USE MaxMsgsAssumption DEF TypeOK, ReadersInv, ReaderOf, Call
<1>1. CASE StartRead
    BY <1>1 DEF StartRead
<1>2. CASE Receive
    BY <1>2 DEF Receive
<1>3. CASE ContextDone \/ HandleMessage \/ CloseConn
    BY <1>3 DEF ContextDone, HandleMessage, CloseConn
<1>4. ASSUME NEW n \in Call, ReaderStep(n) PROVE ReadersInv'
    BY <1>4 DEF ReaderStep, ReaderGets, ReaderFails
<1>5. CASE UNCHANGED <<loop, calls, reader>>
    BY <1>5
<1> HIDE DEF ReadersInv
<1> QED
    BY <1>1, <1>2, <1>3, <1>4, <1>5
    DEF Next, LoopStep, Finished, vars, ClientSends, ClientLeaves, WriterCancels

\* The message in hand is always the next one to be handled.
LEMMA InHandStep ==
    TypeOK /\ ReadersInv /\ InHandInv /\ [Next]_vars => InHandInv'
<1> SUFFICES ASSUME TypeOK, ReadersInv, InHandInv, [Next]_vars PROVE InHandInv'
    OBVIOUS
<1> USE MaxMsgsAssumption
        DEF TypeOK, ReadersInv, ReaderOf, InHandInv, HoldsLast, Call, Result,
            NoResult, Kind
<1>1. ASSUME NEW kind \in Kind, ClientSends(kind) PROVE InHandInv'
    <2>1. taken > 0 => sentMsgs'[taken] = sentMsgs[taken]
        BY <1>1 DEF ClientSends
    <2>2. taken \in Nat /\ Len(handled) \in Nat
        OBVIOUS
    <2>3. UNCHANGED <<loop, calls, reader, result, got, taken, handled>>
        BY <1>1 DEF ClientSends
    <2> HIDE DEF TypeOK, ReadersInv, Result, Kind
    <2> QED
        BY <2>1, <2>2, <2>3
<1>2. CASE ClientLeaves \/ WriterCancels
    BY <1>2 DEF ClientLeaves, WriterCancels
<1>3. CASE StartRead
    BY <1>3 DEF StartRead
<1>4. CASE Receive
    BY <1>4 DEF Receive
<1>5. CASE ContextDone \/ CloseConn
    BY <1>5 DEF ContextDone, CloseConn
<1>6. CASE HandleMessage
    BY <1>6 DEF HandleMessage
<1>7. ASSUME NEW n \in Call, ReaderGets(n) PROVE InHandInv'
    <2>1. n = calls
        <3>1. ~(n > calls) /\ ~(n < calls)
            BY <1>7 DEF ReaderGets
        <3>2. n \in Int /\ calls \in Int
            OBVIOUS
        <3> QED
            BY <3>1, <3>2
    <2>2. /\ taken \in Nat /\ taken' = taken + 1
          /\ result'[calls] = [kind |-> sentMsgs[taken'], n |-> taken']
          /\ reader'[calls] = "offering"
          /\ UNCHANGED <<loop, calls, got, sentMsgs, handled>>
        BY <1>7, <2>1 DEF ReaderGets
    <2>3. loop \notin {"read", "got"}
        BY <1>7, <2>1 DEF ReaderGets
    <2>4. Len(handled) \in Nat /\ Len(handled) <= taken
        OBVIOUS
    <2>5. loop = "select" => taken = Len(handled)
        BY <1>7, <2>1 DEF ReaderGets
    <2> QED
        BY <2>2, <2>3, <2>4, <2>5
<1>8. ASSUME NEW n \in Call, ReaderFails(n) PROVE InHandInv'
    BY <1>8 DEF ReaderFails
<1>9. CASE UNCHANGED vars
    BY <1>9 DEF vars
<1> HIDE DEF InHandInv
<1> QED
    BY <1>1, <1>2, <1>3, <1>4, <1>5, <1>6, <1>7, <1>8, <1>9
    DEF Next, LoopStep, ReaderStep, Finished

\* What is handled next is the message that was sent next.
LEMMA OrderStep ==
    TypeOK /\ InHandInv /\ HandledInOrder /\ [Next]_vars => HandledInOrder'
<1> SUFFICES ASSUME TypeOK, InHandInv, HandledInOrder, [Next]_vars
             PROVE  HandledInOrder'
    OBVIOUS
<1> USE DEF TypeOK, InHandInv, HandledInOrder
<1>1. ASSUME NEW kind \in Kind, ClientSends(kind) PROVE HandledInOrder'
    BY <1>1 DEF ClientSends
<1>2. CASE HandleMessage
    BY <1>2 DEF HandleMessage, HoldsLast
<1>3. CASE UNCHANGED <<sentMsgs, handled>>
    BY <1>3
<1> HIDE DEF HandledInOrder
<1> QED
    BY <1>1, <1>2, <1>3
    DEF Next, LoopStep, ReaderStep, Finished, vars, ClientLeaves, WriterCancels,
        StartRead, Receive, ContextDone, CloseConn, ReaderGets, ReaderFails

-----------------------------------------------------------------------------
(* The theorems                                                            *)

\* The inductive invariant of the read loop.
THEOREM SafetyInvariant == Spec => []SafetyInv
<1>1. SafetyInv /\ [Next]_vars => SafetyInv'
    BY TypeStep, ReadersStep, InHandStep, OrderStep DEF SafetyInv
<1> QED
    BY InitSafe, <1>1, PTL DEF Spec

\* However many messages come, the read loop keeps its types.
THEOREM TypeCorrect == Spec => []TypeOK
<1>1. SafetyInv => TypeOK
    BY DEF SafetyInv
<1> QED
    BY SafetyInvariant, <1>1, PTL

\* readMessage never has two of its goroutines alive.
THEOREM OneReaderAlive == Spec => []OneReader
<1>1. SafetyInv => OneReader
    <2> SUFFICES ASSUME SafetyInv PROVE Cardinality(Alive) <= 1
        BY DEF OneReader
    <2>1. Alive \subseteq {calls}
        BY DEF SafetyInv, TypeOK, ReadersInv, ReaderOf, Alive, Call
    <2>2. IsFiniteSet({calls}) /\ Cardinality({calls}) = 1
        BY FS_Singleton
    <2>3. Cardinality(Alive) <= Cardinality({calls})
        BY <2>1, <2>2, FS_Subset
    <2> QED
        BY <2>2, <2>3
<1> QED
    BY SafetyInvariant, <1>1, PTL

\* dispatchLoop handles the messages in the order they were sent, each once
\* and none passed over.
THEOREM InOrder == Spec => []HandledInOrder
<1>1. SafetyInv => HandledInOrder
    BY DEF SafetyInv
<1> QED
    BY SafetyInvariant, <1>1, PTL
=============================================================================

----------------------------- MODULE MCRpcStream -----------------------------
(* Instances of RpcStream for TLC: what the clients send.                   *)
EXTENDS RpcStream, TLC

CONSTANTS k1, k2, i1, i2, m1, m2, m3

Call(k, i, x) == [conn |-> k, id |-> i, method |-> x]

\* Unordered pairs of methods, one of each two that differ by their order.
Pairs ==
    {<<x, x>> : x \in AllMethods} \cup
    {<<"watch", y>> : y \in {"cancel", "other", "garbled", "untyped"}} \cup
    {<<"cancel", y>> : y \in {"other", "garbled", "untyped"}} \cup
    {<<"other", "garbled">>, <<"other", "untyped">>, <<"garbled", "untyped">>}

\* Two messages of any methods under one id, and a watch with a cancel under
\* another id; on the same or on different connections.
TwoMessages ==
    {m1 :> Call(k1, i1, p[1]) @@ m2 :> Call(k, i1, p[2]) : k \in Conn, p \in Pairs}
    \cup {m1 :> Call(k1, i1, "watch") @@ m2 :> Call(k, i2, "cancel") : k \in Conn}

\* A watch, its namesake and a cancel, on the same or different connections.
WatchWatchCancel ==
    {m1 :> Call(k1, i1, "watch") @@ m2 :> Call(k, i1, "watch")
        @@ m3 :> Call(l, i1, "cancel") : k \in Conn, l \in Conn}
=============================================================================

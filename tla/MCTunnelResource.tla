-------------------------- MODULE MCTunnelResource --------------------------
(* Instances of TunnelResource for TLC: the requests.                       *)
EXTENDS TunnelResource, TLC

CONSTANTS r1, r2, c1, c2

Interchangeable == Permutations(Req) \cup Permutations(Creator)

Ask(op, known, body, v) == [op |-> op, known |-> known, body |-> body, base |-> v]

\* One request of each kind whose outcome differs.
EachKind ==
    {Ask(op, TRUE, "object", 0) : op \in Op \ {"update"}} \cup
    {Ask("update", TRUE, "object", v) : v \in 0 .. MaxBase} \cup
    {Ask("update", TRUE, body, 0) : body \in {"list", "junk"}} \cup
    {Ask("update", FALSE, "object", 0), Ask("resources", FALSE, "object", 0)}
=============================================================================

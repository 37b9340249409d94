----------------------------- MODULE ClientSupply -----------------------------
(***************************************************************************)
(* What RunFRPc promises of the clients it supplies, whatever goroutines   *)
(* start, watch and cancel them: they come one after another, a new one    *)
(* only when all before it are revoked; each is revoked once; none is told *)
(* to close before it is revoked; and after the signal there is one more   *)
(* at most, although clients that were told may take their time to end.    *)
(***************************************************************************)
EXTENDS Naturals

CONSTANT MaxRounds   \* bound on the clients supplied

VARIABLES
    given,           \* number of clients supplied
    client,          \* each of them: "none", "up", "closed" (told to), "ended"
    revoked,         \* the supply of it has been revoked
    signalled,       \* the signal has been given
    extra            \* a client has been supplied since

csVars == <<given, client, revoked, signalled, extra>>

CSInit ==
    /\ given = 0
    /\ client = [r \in 1 .. MaxRounds |-> "none"]
    /\ revoked = [r \in 1 .. MaxRounds |-> FALSE]
    /\ signalled = FALSE /\ extra = FALSE

Supply ==
    /\ given < MaxRounds
    /\ \A r \in 1 .. given : revoked[r]
    /\ ~extra
    /\ given' = given + 1
    /\ client' = [client EXCEPT ![given + 1] = "up"]
    /\ extra' = signalled
    /\ UNCHANGED <<revoked, signalled>>

Revoke(r) ==
    /\ ~revoked[r]
    /\ revoked' = [revoked EXCEPT ![r] = TRUE]
    /\ UNCHANGED <<given, client, signalled, extra>>

TellToClose(r) ==
    /\ revoked[r] /\ client[r] = "up"
    /\ client' = [client EXCEPT ![r] = "closed"]
    /\ UNCHANGED <<given, revoked, signalled, extra>>

\* By itself, or because it was told to.
End(r) ==
    /\ client[r] \in {"up", "closed"}
    /\ client' = [client EXCEPT ![r] = "ended"]
    /\ UNCHANGED <<given, revoked, signalled, extra>>

Signal ==
    /\ ~signalled
    /\ signalled' = TRUE
    /\ UNCHANGED <<given, client, revoked, extra>>

CSNext ==
    \/ Supply \/ Signal
    \/ \E r \in 1 .. given : Revoke(r) \/ TellToClose(r) \/ End(r)

CSSpec == CSInit /\ [][CSNext]_csVars
=============================================================================

----------------------------- MODULE ReplyStream -----------------------------
(***************************************************************************)
(* What a client is promised about the answers to its messages, whatever   *)
(* goroutines produce them: the replies to one message arrive numbered     *)
(* 1, 2, 3, ... with no gap and no repetition, a message whose method      *)
(* answers once gets at most one of them, and none arrives once the        *)
(* stream of that message is over.                                         *)
(***************************************************************************)
EXTENDS Naturals

CONSTANT Msg         \* the messages clients send

VARIABLES
    once,            \* messages that get at most one reply
    phase,           \* "new", "open" or "over"
    delivered        \* number of replies the client has received

rsVars == <<once, phase, delivered>>

RSInit ==
    /\ once \in SUBSET Msg
    /\ phase = [m \in Msg |-> "new"]
    /\ delivered = [m \in Msg |-> 0]

Open(m) ==
    /\ phase[m] = "new"
    /\ phase' = [phase EXCEPT ![m] = "open"]
    /\ UNCHANGED <<once, delivered>>

Deliver(m) ==
    /\ phase[m] = "open"
    /\ m \in once => delivered[m] = 0
    /\ delivered' = [delivered EXCEPT ![m] = @ + 1]
    /\ UNCHANGED <<once, phase>>

\* A message may be refused without ever being opened.
Close(m) ==
    /\ phase[m] # "over"
    /\ phase' = [phase EXCEPT ![m] = "over"]
    /\ UNCHANGED <<once, delivered>>

RSNext == \E m \in Msg : Open(m) \/ Deliver(m) \/ Close(m)

RSSpec == RSInit /\ [][RSNext]_rsVars
=============================================================================

----------------------------- MODULE ObjectView -----------------------------
(***************************************************************************)
(* What a client that watches an object is promised, whatever lies between *)
(* it and the cluster: it is shown only versions the object has had, never *)
(* goes back to an older one, and does not see the object vanish while the  *)
(* version it is shown is the current one.                                  *)
(***************************************************************************)
EXTENDS Naturals

VARIABLES
    object,    \* the current version, 0: there is none
    top,       \* last version given to the object
    shown,     \* the version the client is shown, 0: none
    newest     \* greatest version it has been shown

ovVars == <<object, top, shown, newest>>

OVInit == object \in 0 .. 1 /\ top = object /\ shown = 0 /\ newest = 0

Modify ==
    /\ object' = top + 1 /\ top' = top + 1
    /\ UNCHANGED <<shown, newest>>

Remove == object' = 0 /\ UNCHANGED <<top, shown, newest>>

Show ==
    /\ \E v \in 1 .. top : v >= newest /\ shown' = v /\ newest' = v
    /\ UNCHANGED <<object, top>>

Hide ==
    /\ shown # object
    /\ shown' = 0
    /\ UNCHANGED <<object, top, newest>>

OVNext == Modify \/ Remove \/ Show \/ Hide

OVSpec == OVInit /\ [][OVNext]_ovVars
=============================================================================

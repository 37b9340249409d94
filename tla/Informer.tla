------------------------------ MODULE Informer ------------------------------
(***************************************************************************)
(* The client-go informer that api/stream/rpc/kube/objects/watch.go and    *)
(* kubefwd/kubefwd.go build, for one object of the cluster.  It is external *)
(* code: a list fills its store, a watch keeps it current, and every change *)
(* of the store is noted for the event handlers.  A watch that breaks for   *)
(* so long that it cannot be resumed is followed by a new list.             *)
(***************************************************************************)
EXTENDS Naturals, Sequences

CONSTANTS
    MaxVersion,   \* bound on the versions the object goes through
    MaxNotes      \* bound on the notes the handlers have not yet taken

ASSUME BoundsAssumption == MaxVersion \in Nat \ {0} /\ MaxNotes \in Nat \ {0}

VARIABLES
    object,       \* version of the object at the API server, 0: there is none
    top,          \* last version given to the object
    linked,       \* the watch connection is up
    wire,         \* versions on their way over it, 0 for a deletion
    store,        \* version in the informer's store
    synced,       \* HasSynced
    listening,    \* the event handlers have been added
    notes         \* notifications the handlers have not yet taken

informerVars == <<object, top, linked, wire, store, synced, listening, notes>>

Version == 0 .. MaxVersion
Note == [type : {"added", "updated", "deleted", "tombstone"}, old : Version, new : Version]

\* "tombstone" is a DeletedFinalStateUnknown: the deletion itself was missed.
Change(type, old, new) == [type |-> type, old |-> old, new |-> new]
Updated(old, new) == Change(IF old = 0 THEN "added" ELSE "updated", old, new)

Notify(new) == notes' = IF listening THEN notes \o new ELSE notes
Room == Len(notes) < MaxNotes

InformerInit ==
    /\ object \in 0 .. 1
    /\ top = object
    /\ linked = FALSE
    /\ wire = <<>>
    /\ store = 0
    /\ synced = FALSE
    /\ notes = <<>>

\* Somebody creates, changes or deletes the object.
ServerChange ==
    /\ \/ top < MaxVersion /\ object' = top + 1 /\ top' = top + 1
       \/ object # 0 /\ object' = 0 /\ UNCHANGED top
    /\ wire' = IF linked THEN Append(wire, object') ELSE wire
    /\ UNCHANGED <<linked, store, synced, listening, notes>>

Receive ==
    /\ wire # <<>> /\ Room
    /\ wire' = Tail(wire)
    /\ store' = Head(wire)
    /\ Notify(<<IF Head(wire) = 0 THEN Change("deleted", store, 0)
                                  ELSE Updated(store, Head(wire))>>)
    /\ UNCHANGED <<object, top, linked, synced, listening>>

Gap ==
    /\ linked
    /\ linked' = FALSE
    /\ wire' = <<>>
    /\ UNCHANGED <<object, top, store, synced, listening, notes>>

\* The list that starts the informer, or that follows a gap: it repeats an
\* object that has not changed as an update.
Relist ==
    /\ ~linked /\ Room
    /\ linked' = TRUE
    /\ synced' = TRUE
    /\ store' = object
    /\ Notify(CASE object # 0                -> <<Updated(store, object)>>
                [] object = 0 /\ store # 0   -> <<Change("tombstone", store, 0)>>
                [] OTHER                     -> <<>>)
    /\ UNCHANGED <<object, top, wire, listening>>

\* The periodic resync of the dynamic informer factory; its period is long enough
\* for the notes of changes to find room.
Resync ==
    /\ listening /\ store # 0 /\ Len(notes) + 1 < MaxNotes
    /\ Notify(<<Change("updated", store, store)>>)
    /\ UNCHANGED <<object, top, linked, wire, store, synced, listening>>

\* The handlers take one note after the other.
NextIs(type) == notes # <<>> /\ Head(notes).type = type
Take == /\ notes' = Tail(notes)
        /\ UNCHANGED <<object, top, linked, wire, store, synced, listening>>

InformerNext == ServerChange \/ Receive \/ Gap \/ Relist

InformerTypeOK ==
    /\ object \in Version /\ top \in Version /\ store \in Version
    /\ linked \in BOOLEAN /\ synced \in BOOLEAN
    /\ wire \in Seq(Version)
    /\ notes \in Seq(Note) /\ Len(notes) <= MaxNotes
    /\ listening \in BOOLEAN
=============================================================================

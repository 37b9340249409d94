-------------------------- MODULE WatchEventsProofs --------------------------
(***************************************************************************)
(* Theorems about WatchEvents, for any bounds on versions and notes: its   *)
(* types, what the events of a watch make up, and that it implements       *)
(* ObjectView.  What they rest on: the history of the store in the notes   *)
(* (InformerProofs), and that versions come in their order all the way     *)
(* from the API server to the client (OrderInv).                           *)
(***************************************************************************)
EXTENDS WatchEvents, InformerProofs

\* The client holds nothing or the greatest version sent to it, and nothing
\* is sent before the handlers are there.
ClientInv ==
    /\ view \in {0, newest}
    /\ ~listening => view = 0 /\ newest = 0
    /\ listening /\ notes = <<>> => view = store \/ (store = 0 /\ missed)

\* v is no later than what the wire and the API server have to show, and
\* earlier than the object if that was deleted in between.
Behind(v) ==
    /\ v <= top /\ (object # 0 => v <= object)
    /\ \A k \in DOMAIN wire :
        /\ wire[k] # 0 => v <= wire[k]
        /\ wire[k] = 0 => object = 0 \/ v < object

\* The same for the notes still due after note i.
BehindNotes(v, i) ==
    /\ store # 0 => v <= store
    /\ \A j \in DOMAIN notes : j > i =>
        /\ notes[j].new # 0 => v <= notes[j].new
        /\ notes[j].type = "deleted" => object = 0 \/ v < object

\* Versions keep their order from the API server to the client.
OrderInv ==
    /\ Behind(newest) /\ BehindNotes(newest, 0)
    /\ \A i \in DOMAIN notes : Behind(notes[i].new) /\ BehindNotes(notes[i].new, i)
    /\ Behind(store)
    /\ object <= top
    /\ \A k \in DOMAIN wire :
        /\ wire[k] <= top /\ (object # 0 => wire[k] <= object)
        /\ \A l \in DOMAIN wire : l > k =>
            /\ wire[l] # 0 => wire[k] <= wire[l]
            /\ wire[l] = 0 => object = 0 \/ wire[k] < object

SafetyInv ==
    /\ InformerInv
    /\ TypeOK
    /\ ClientInv
    /\ OrderInv

-----------------------------------------------------------------------------
\* What the order of versions is about are numbers.
LEMMA Versions ==
    ASSUME SafetyInv
    PROVE  /\ Version \subseteq Nat /\ 0 \in Version
           /\ wire \in Seq(Version) /\ notes \in Seq(Note)
           /\ object \in Version /\ top \in Version /\ store \in Version
           /\ newest \in Version /\ view \in Version
           /\ \A k \in DOMAIN wire : wire[k] \in Version
           /\ \A i \in DOMAIN notes :
                  /\ notes[i].new \in Version
                  /\ notes[i].new = 0 <=> notes[i].type \in {"deleted", "tombstone"}
<1>1. Version \subseteq Nat /\ 0 \in Version
    BY BoundsAssumption DEF Version
<1>2. /\ wire \in Seq(Version) /\ notes \in Seq(Note)
      /\ object \in Version /\ top \in Version /\ store \in Version
      /\ newest \in Version /\ view \in Version
    BY DEF SafetyInv, TypeOK, InformerTypeOK
<1>3. \A k \in DOMAIN wire : wire[k] \in Version
    BY <1>2
<1>4. \A i \in DOMAIN notes : notes[i] \in Note /\ NoteInv(notes[i])
    BY <1>2 DEF SafetyInv, InformerInv, NotesInv
<1> QED
    BY <1>1, <1>2, <1>3, <1>4 DEF Note, NoteInv

\* Nothing has been seen yet.
LEMMA InitSafe == Init => SafetyInv
<1> SUFFICES ASSUME Init PROVE SafetyInv
    OBVIOUS
<1> USE BoundsAssumption DEF Init, InformerInit
<1>1. linked \in BOOLEAN /\ synced \in BOOLEAN /\ listening \in BOOLEAN /\ missed \in BOOLEAN
    OBVIOUS
<1>2. wire \in Seq(Version) /\ notes \in Seq(Note) /\ Len(notes) <= MaxNotes
    OBVIOUS
<1>3. /\ object \in Version /\ top \in Version /\ store \in Version
      /\ view \in Version /\ newest \in Version
    BY DEF Version
<1>4. InformerTypeOK /\ TypeOK
    BY <1>1, <1>2, <1>3 DEF InformerTypeOK, TypeOK
<1>5. InformerInv
    BY <1>4 DEF InformerInv, LinkInv, NotesInv
<1>6. ClientInv
    BY DEF ClientInv
<1>7. OrderInv
    BY DEF OrderInv, Behind, BehindNotes
<1> QED
    BY <1>4, <1>5, <1>6, <1>7 DEF SafetyInv

-----------------------------------------------------------------------------
(* The order of versions                                                   *)

\* A change at the API server is later than all there is.
LEMMA ServerOrder ==
    ASSUME SafetyInv, ServerChange, UNCHANGED clientVars
    PROVE  OrderInv'
<1>0. /\ Version \subseteq Nat /\ wire \in Seq(Version)
      /\ object \in Nat /\ top \in Nat /\ store \in Nat /\ newest \in Nat
      /\ \A k \in DOMAIN wire : wire[k] \in Nat
      /\ \A i \in DOMAIN notes : notes[i].new \in Nat
      /\ OrderInv
    BY Versions DEF SafetyInv
<1>1. /\ object' \in Nat /\ top' \in Nat /\ top <= top' /\ object' <= top'
      /\ object' = 0 \/ object' > top
      /\ UNCHANGED <<store, notes, newest>>
    BY <1>0 DEF ServerChange, clientVars, OrderInv
<1>2. /\ DOMAIN wire \subseteq DOMAIN wire'
      /\ \A k \in DOMAIN wire : wire'[k] = wire[k]
      /\ \A k \in DOMAIN wire' : k \in Nat
      /\ \A k \in DOMAIN wire' \ DOMAIN wire :
            /\ wire'[k] = object'
            /\ \A l \in DOMAIN wire' : l <= k
    BY <1>0, <1>1 DEF ServerChange
<1>3. ASSUME NEW v \in Nat, Behind(v) PROVE Behind(v)'
    BY <1>0, <1>1, <1>2, <1>3 DEF Behind
<1>4. ASSUME NEW v \in Nat, NEW i \in Nat, v <= top, BehindNotes(v, i) PROVE BehindNotes(v, i)'
    BY <1>0, <1>1, <1>4 DEF BehindNotes
<1>5. \A i \in DOMAIN notes : i \in Nat
    BY Versions
<1>6. Behind(newest)' /\ Behind(store)' /\ BehindNotes(newest, 0)'
    BY <1>0, <1>1, <1>3, <1>4 DEF OrderInv, Behind
<1>7. (\A i \in DOMAIN notes : Behind(notes[i].new) /\ BehindNotes(notes[i].new, i))'
    BY <1>0, <1>1, <1>3, <1>4, <1>5 DEF OrderInv, Behind
<1>8. ASSUME NEW k \in DOMAIN wire'
      PROVE  /\ wire'[k] <= top' /\ (object' # 0 => wire'[k] <= object')
             /\ \A l \in DOMAIN wire' : l > k =>
                    /\ wire'[l] # 0 => wire'[k] <= wire'[l]
                    /\ wire'[l] = 0 => object' = 0 \/ wire'[k] < object'
    <2>1. CASE k \in DOMAIN wire
        <3>1. /\ wire[k] \in Nat /\ wire[k] <= top /\ (object # 0 => wire[k] <= object)
              /\ wire'[k] = wire[k] /\ top \in Nat /\ object \in Nat
            BY <1>0, <1>2, <2>1 DEF OrderInv
        <3>2. wire'[k] <= top' /\ (object' # 0 => wire'[k] <= object')
            BY <1>1, <3>1
        <3>3. ASSUME NEW l \in DOMAIN wire', l > k
              PROVE  /\ wire'[l] # 0 => wire'[k] <= wire'[l]
                     /\ wire'[l] = 0 => object' = 0 \/ wire'[k] < object'
            <4>1. CASE l \in DOMAIN wire
                <5>1. /\ wire[l] # 0 => wire[k] <= wire[l]
                      /\ wire[l] = 0 => object = 0 \/ wire[k] < object
                    BY <1>0, <2>1, <3>3, <4>1 DEF OrderInv
                <5>2. wire'[l] = wire[l]
                    BY <1>2, <4>1
                <5> QED
                    BY <1>1, <3>1, <5>1, <5>2
            <4>2. CASE l \notin DOMAIN wire
                BY <1>1, <1>2, <3>1, <3>2, <3>3, <4>2
            <4> QED
                BY <4>1, <4>2
        <3> QED
            BY <3>2, <3>3
    <2>2. CASE k \notin DOMAIN wire
        BY <1>0, <1>1, <1>2, <2>2
    <2> QED
        BY <2>1, <2>2
<1> QED
    BY <1>1, <1>6, <1>7, <1>8 DEF OrderInv

\* The versions that have been taken from the store: the last one sent and
\* those of the notes.
Seen == {newest} \cup {notes[i].new : i \in DOMAIN notes}

\* One more note is in order behind the others if what it notes is in order
\* behind what they have noted.
LEMMA NoteOrder ==
    ASSUME SafetyInv, NEW note \in Note, note.new = store', store' \in Nat,
           notes' = notes \o <<note>> \/ notes' = notes,
           UNCHANGED <<object, newest>>, Behind(store)',
           \A v \in Seen :
               /\ Behind(v)'
               /\ store' # 0 => v <= store'
               /\ note.type = "deleted" => object = 0 \/ v < object
    PROVE  /\ Behind(newest)' /\ BehindNotes(newest, 0)'
           /\ (\A i \in DOMAIN notes : Behind(notes[i].new) /\ BehindNotes(notes[i].new, i))'
<1>0. notes \in Seq(Note) /\ object \in Nat /\ newest \in Nat /\ OrderInv
    BY Versions DEF SafetyInv
<1>1. CASE notes' = notes
    <2>1. ASSUME NEW v \in Seen, NEW i \in Nat, BehindNotes(v, i) PROVE BehindNotes(v, i)'
        BY <1>0, <1>1, <2>1 DEF BehindNotes
    <2>2. Behind(newest)' /\ BehindNotes(newest, 0)'
        BY <1>0, <1>1, <2>1 DEF OrderInv, Seen
    <2>3. (\A i \in DOMAIN notes : Behind(notes[i].new) /\ BehindNotes(notes[i].new, i))'
        <3>1. ASSUME NEW i \in DOMAIN notes, NEW v, v = notes[i].new
              PROVE  Behind(v)' /\ BehindNotes(v, i)'
            <4>1. v \in Seen /\ i \in Nat
                BY <1>0, <3>1 DEF Seen
            <4>2. BehindNotes(v, i)
                BY <1>0, <3>1 DEF OrderInv
            <4> QED
                BY <2>1, <4>1, <4>2
        <3> QED
            BY <1>1, <3>1
    <2> QED
        BY <2>2, <2>3
<1>2. CASE notes' = notes \o <<note>>
    <2>1. /\ Len(notes) \in Nat /\ DOMAIN notes = 1 .. Len(notes)
          /\ DOMAIN notes' = 1 .. Len(notes) + 1
          /\ notes'[Len(notes) + 1] = note
          /\ \A i \in 1 .. Len(notes) : notes'[i] = notes[i]
        BY <1>0, <1>2, OneMore
    <2>2. ASSUME NEW v \in Seen, NEW i \in Nat, BehindNotes(v, i) PROVE BehindNotes(v, i)'
        <3>1. ASSUME NEW j \in DOMAIN notes', j > i
              PROVE  /\ notes'[j].new # 0 => v <= notes'[j].new
                     /\ notes'[j].type = "deleted" => object' = 0 \/ v < object'
            <4>1. CASE j <= Len(notes)
                BY <1>0, <2>1, <2>2, <3>1, <4>1 DEF BehindNotes
            <4>2. CASE j = Len(notes) + 1
                BY <1>0, <2>1, <4>2
            <4> QED
                BY <2>1, <4>1, <4>2
        <3> QED
            BY <3>1 DEF BehindNotes
    <2>3. Behind(newest)' /\ BehindNotes(newest, 0)'
        BY <1>0, <2>2 DEF OrderInv, Seen
    <2>4. ASSUME NEW i \in DOMAIN notes'
          PROVE  Behind(notes[i].new)' /\ BehindNotes(notes[i].new, i)'
        <3>1. CASE i \in DOMAIN notes
            <4>1. ASSUME NEW v, v = notes[i].new
                  PROVE  Behind(v)' /\ BehindNotes(v, i)'
                <5>1. v \in Seen /\ i \in Nat
                    BY <1>0, <3>1, <4>1 DEF Seen
                <5>2. BehindNotes(v, i)
                    BY <1>0, <3>1, <4>1 DEF OrderInv
                <5> QED
                    BY <2>2, <5>1, <5>2
            <4>2. notes'[i].new = notes[i].new
                BY <2>1, <3>1
            <4> QED
                BY <4>1, <4>2
        <3>2. CASE i = Len(notes) + 1
            <4>1. notes'[i].new = store'
                BY <2>1, <3>2
            <4>2. BehindNotes(store, i)'
                BY <2>1, <3>2 DEF BehindNotes
            <4> QED
                BY <4>1, <4>2
        <3> QED
            BY <2>1, <3>1, <3>2
    <2> QED
        BY <2>3, <2>4
<1> QED
    BY <1>1, <1>2

\* What has been seen is behind the wire and the API server, and no later
\* than the store.
LEMMA SeenBehind ==
    ASSUME SafetyInv, NEW v \in Seen
    PROVE  v \in Nat /\ Behind(v) /\ (store # 0 => v <= store)
BY Versions DEF SafetyInv, OrderInv, Seen, BehindNotes

\* The informer receives the next version there is.
LEMMA ReceiveOrder ==
    ASSUME SafetyInv, Receive, UNCHANGED clientVars
    PROVE  OrderInv'
<1> DEFINE note == IF Head(wire) = 0 THEN Change("deleted", store, 0)
                                     ELSE Updated(store, Head(wire))
<1>0. /\ wire \in Seq(Version) /\ wire # <<>> /\ store \in Version /\ object \in Nat
      /\ top \in Nat /\ newest \in Nat /\ notes \in Seq(Note)
      /\ Version \subseteq Nat /\ 0 \in Version /\ OrderInv
      /\ \A k \in DOMAIN wire : wire[k] \in Nat
    BY Versions DEF SafetyInv, Receive
<1>1. /\ wire' = Tail(wire) /\ store' = wire[1] /\ Head(wire) = wire[1]
      /\ wire[1] \in Version /\ Len(wire) \in Nat \ {0} /\ Len(wire') = Len(wire) - 1
      /\ wire' \in Seq(Version)
      /\ \A k \in DOMAIN wire' :
             k \in Nat \ {0} /\ k + 1 \in DOMAIN wire /\ wire'[k] = wire[k + 1]
      /\ UNCHANGED <<object, top, newest>>
    BY <1>0, OneLess DEF Receive, clientVars
<1>2. /\ note \in Note /\ note.new = store'
      /\ note.type = "deleted" <=> store' = 0
    BY <1>0, <1>1 DEF Note, Change, Updated
<1>3. notes' = notes \o <<note>> \/ notes' = notes
    BY DEF Receive, Notify
<1>4. ASSUME NEW v \in Nat, Behind(v)
      PROVE  /\ Behind(v)'
             /\ store' # 0 => v <= store'
             /\ store' = 0 => object = 0 \/ v < object
    BY <1>0, <1>1, <1>4 DEF Behind
<1>5. ASSUME NEW v, v = wire[1] PROVE Behind(v)'
    <2>1. v \in Nat /\ v <= top /\ (object # 0 => v <= object)
        BY <1>0, <1>5 DEF OrderInv
    <2>2. ASSUME NEW k \in DOMAIN wire'
          PROVE  /\ wire'[k] # 0 => v <= wire'[k]
                 /\ wire'[k] = 0 => object = 0 \/ v < object
        <3>1. 1 \in DOMAIN wire /\ k + 1 \in DOMAIN wire /\ k + 1 > 1 /\ wire'[k] = wire[k + 1]
            BY <1>0, <1>1, <2>2
        <3> QED
            BY <1>5, <1>0, <3>1 DEF OrderInv
    <2> QED
        BY <1>1, <2>1, <2>2 DEF Behind
<1>6. Behind(store)'
    BY <1>1, <1>5
<1>7. \A v \in Seen :
          /\ Behind(v)'
          /\ store' # 0 => v <= store'
          /\ note.type = "deleted" => object = 0 \/ v < object
    BY <1>2, <1>4, SeenBehind
<1>8. /\ Behind(newest)' /\ BehindNotes(newest, 0)'
      /\ (\A i \in DOMAIN notes : Behind(notes[i].new) /\ BehindNotes(notes[i].new, i))'
    <2>1. store' \in Nat /\ UNCHANGED <<object, newest>>
        BY <1>0, <1>1
    <2> HIDE DEF note
    <2> QED
        BY <1>2, <1>3, <1>6, <1>7, <2>1, NoteOrder
<1>9. ASSUME NEW k \in DOMAIN wire'
      PROVE  /\ wire'[k] <= top /\ (object # 0 => wire'[k] <= object)
             /\ \A l \in DOMAIN wire' : l > k =>
                    /\ wire'[l] # 0 => wire'[k] <= wire'[l]
                    /\ wire'[l] = 0 => object = 0 \/ wire'[k] < object
    <2>1. k + 1 \in DOMAIN wire /\ wire'[k] = wire[k + 1]
        BY <1>0, <1>1
    <2>2. ASSUME NEW l \in DOMAIN wire', l > k
          PROVE  /\ wire'[l] # 0 => wire'[k] <= wire'[l]
                 /\ wire'[l] = 0 => object = 0 \/ wire'[k] < object
        <3>1. l + 1 \in DOMAIN wire /\ wire'[l] = wire[l + 1] /\ l + 1 > k + 1
            BY <1>0, <1>1, <2>2
        <3> QED
            BY <1>0, <2>1, <3>1 DEF OrderInv
    <2> QED
        BY <1>0, <2>1, <2>2 DEF OrderInv
<1> QED
    BY <1>0, <1>1, <1>6, <1>8, <1>9 DEF OrderInv

\* The wire is empty: all there is to be in order with is the object.
LEMMA GapOrder ==
    ASSUME SafetyInv, Gap, UNCHANGED clientVars
    PROVE  OrderInv'
<1>1. /\ UNCHANGED <<object, top, store, notes, newest>> /\ DOMAIN wire' = {} /\ OrderInv
    BY DEF SafetyInv, Gap, clientVars
<1>2. ASSUME NEW v, Behind(v) PROVE Behind(v)'
    BY <1>1, <1>2 DEF Behind
<1>3. ASSUME NEW v, NEW i, BehindNotes(v, i) PROVE BehindNotes(v, i)'
    BY <1>1, <1>3 DEF BehindNotes
<1>4. ASSUME NEW i \in DOMAIN notes, NEW v, v = notes[i].new
      PROVE  Behind(v)' /\ BehindNotes(v, i)'
    BY <1>1, <1>2, <1>3, <1>4 DEF OrderInv
<1>5. Behind(newest)' /\ BehindNotes(newest, 0)' /\ Behind(store)'
    BY <1>1, <1>2, <1>3 DEF OrderInv
<1> QED
    BY <1>1, <1>4, <1>5 DEF OrderInv

\* The list brings the store to the object, which is as late as can be.
LEMMA RelistOrder ==
    ASSUME SafetyInv, Relist, UNCHANGED clientVars
    PROVE  OrderInv'
<1>0. /\ object \in Version /\ store \in Version /\ notes \in Seq(Note)
      /\ Version \subseteq Nat /\ 0 \in Version /\ OrderInv
      /\ DOMAIN wire = {}
    BY Versions DEF SafetyInv, InformerInv, LinkInv, Relist
<1>1. /\ UNCHANGED <<object, top, wire, newest>> /\ store' = object
    BY DEF Relist, clientVars
<1>2. ASSUME NEW v \in Seen
      PROVE  Behind(v)' /\ (store' # 0 => v <= store')
    BY <1>0, <1>1, SeenBehind DEF Behind
<1>3. Behind(store)'
    BY <1>0, <1>1 DEF OrderInv, Behind
<1>4. PICK note \in Note :
          /\ note.new = store' /\ note.type # "deleted"
          /\ notes' = notes \o <<note>> \/ notes' = notes
    <2>1. CASE object # 0
        <3>1. /\ Updated(store, object) \in Note /\ Updated(store, object).new = store'
              /\ Updated(store, object).type # "deleted"
            BY <1>0, <1>1 DEF Note, Change, Updated
        <3> QED
            BY <2>1, <3>1 DEF Relist, Notify
    <2>2. CASE object = 0
        <3>1. /\ Change("tombstone", store, 0) \in Note
              /\ Change("tombstone", store, 0).new = store'
              /\ Change("tombstone", store, 0).type # "deleted"
            BY <1>0, <1>1, <2>2 DEF Note, Change
        <3>2. CASE store # 0
            BY <2>2, <3>1, <3>2 DEF Relist, Notify
        <3>3. CASE store = 0
            BY <1>0, <2>2, <3>1, <3>3 DEF Relist, Notify
        <3> QED
            BY <3>2, <3>3
    <2> QED
        BY <2>1, <2>2
<1>5. /\ Behind(newest)' /\ BehindNotes(newest, 0)'
      /\ (\A i \in DOMAIN notes : Behind(notes[i].new) /\ BehindNotes(notes[i].new, i))'
    <2>1. store' \in Nat
        BY <1>0, <1>1
    <2> QED
        BY <1>1, <1>2, <1>3, <1>4, <2>1, NoteOrder
<1> QED
    BY <1>0, <1>1, <1>3, <1>5 DEF OrderInv

\* The store is noted once more.
LEMMA AgainOrder ==
    ASSUME SafetyInv, NEW note \in Note, note.new = store, note.type # "deleted",
           notes' = notes \o <<note>> \/ notes' = notes,
           UNCHANGED <<object, top, wire, store, newest>>
    PROVE  OrderInv'
<1>1. /\ store' \in Nat /\ OrderInv
      /\ notes' = notes \o <<note>> \/ notes' = notes
    BY Versions DEF SafetyInv
<1>2. ASSUME NEW v, Behind(v) PROVE Behind(v)'
    BY <1>2 DEF Behind
<1>3. Behind(store)'
    BY <1>1, <1>2 DEF OrderInv
<1>4. \A v \in Seen : Behind(v)' /\ (store' # 0 => v <= store')
    BY <1>2, SeenBehind
<1>5. /\ Behind(newest)' /\ BehindNotes(newest, 0)'
      /\ (\A i \in DOMAIN notes : Behind(notes[i].new) /\ BehindNotes(notes[i].new, i))'
    BY <1>1, <1>3, <1>4, NoteOrder
<1> QED
    BY <1>1, <1>3, <1>5 DEF OrderInv

\* The first note is taken, and sent on or dropped.
LEMMA TakeOrder ==
    ASSUME SafetyInv, notes # <<>>, Take,
           \/ newest' = newest
           \/ newest' = notes[1].new
    PROVE  OrderInv'
<1>0. /\ notes \in Seq(Note) /\ OrderInv
      /\ UNCHANGED <<object, top, wire, store>>
    BY Versions DEF SafetyInv, Take
<1>1. /\ Len(notes) \in Nat \ {0} /\ 1 \in DOMAIN notes
      /\ DOMAIN notes' = 1 .. Len(notes) - 1
      /\ \A i \in DOMAIN notes' : i + 1 \in DOMAIN notes /\ notes'[i] = notes[i + 1]
    BY <1>0, OneLess DEF Take
<1>2. ASSUME NEW v, Behind(v) PROVE Behind(v)'
    BY <1>0, <1>2 DEF Behind
<1>3. ASSUME NEW v, NEW i \in Nat, BehindNotes(v, i + 1) PROVE BehindNotes(v, i)'
    BY <1>0, <1>1, <1>3 DEF BehindNotes
<1>4. ASSUME NEW v, BehindNotes(v, 0) PROVE BehindNotes(v, 1)
    BY <1>0, <1>4 DEF BehindNotes
<1>5. Behind(newest)' /\ BehindNotes(newest, 0)'
    <2>1. CASE newest' = newest
        BY <1>0, <1>2, <1>3, <1>4, <2>1 DEF OrderInv
    <2>2. CASE newest' = notes[1].new
        BY <1>0, <1>1, <1>2, <1>3, <2>2 DEF OrderInv
    <2> QED
        BY <2>1, <2>2
<1>6. ASSUME NEW i \in DOMAIN notes', NEW v, v = notes'[i].new
      PROVE  Behind(v)' /\ BehindNotes(v, i)'
    <2>1. i \in Nat /\ i + 1 \in DOMAIN notes /\ v = notes[i + 1].new
        BY <1>1, <1>6
    <2>2. Behind(v) /\ BehindNotes(v, i + 1)
        BY <1>0, <2>1 DEF OrderInv
    <2> QED
        BY <1>2, <1>3, <2>1, <2>2
<1>7. Behind(store)'
    BY <1>0, <1>2 DEF OrderInv
<1> QED
    BY <1>0, <1>5, <1>6, <1>7 DEF OrderInv

-----------------------------------------------------------------------------
(* Every step keeps the invariant                                          *)

\* The handlers are added to an informer whose notes nobody has taken yet.
LEMMA AddHandlerStep == SafetyInv /\ AddEventHandler => SafetyInv'
<1> SUFFICES ASSUME SafetyInv, AddEventHandler PROVE SafetyInv'
    OBVIOUS
<1>0. /\ store \in Version /\ 0 \in Version /\ notes = <<>> /\ view = 0 /\ newest = 0
      /\ synced /\ ~listening /\ listening' = TRUE
      /\ UNCHANGED <<object, top, linked, wire, store, synced, view, newest, missed>>
      /\ notes' = IF store = 0 THEN <<>> ELSE <<Updated(0, store)>>
    BY Versions DEF SafetyInv, InformerInv, NotesInv, ClientInv, AddEventHandler, clientVars
<1>1. /\ Updated(0, store) \in Note /\ Updated(0, store).new = store
      /\ Updated(0, store).type = "added" /\ Updated(0, store).old = 0
    BY <1>0 DEF Note, Change, Updated
<1>2. OrderInv'
    <2>1. notes' = notes \o <<Updated(0, store)>> \/ notes' = notes
        BY <1>0
    <2> QED
        BY <1>0, <1>1, <2>1, AgainOrder
<1>3. /\ notes' \in Seq(Note) /\ Len(notes') <= MaxNotes /\ Len(notes') \in {0, 1}
      /\ store = 0 => notes' = <<>>
      /\ store # 0 => Len(notes') = 1 /\ notes'[1] = Updated(0, store)
    BY <1>0, <1>1, BoundsAssumption
<1>4. InformerTypeOK' /\ LinkInv'
    BY <1>0, <1>3 DEF SafetyInv, InformerInv, InformerTypeOK, LinkInv
<1>5. NotesInv'
    BY <1>0, <1>1, <1>3 DEF NotesInv, NoteInv
<1>6. TypeOK'
    BY <1>0, <1>4 DEF SafetyInv, TypeOK
<1>7. ClientInv'
    BY <1>0, <1>3 DEF ClientInv
<1> QED
    BY <1>2, <1>4, <1>5, <1>6, <1>7 DEF SafetyInv, InformerInv

\* The informer's own steps; the client hears of them only in notes.
LEMMA InformerStep ==
    SafetyInv /\ (InformerNext \/ Resync) /\ UNCHANGED clientVars => SafetyInv'
<1> SUFFICES ASSUME SafetyInv, InformerNext \/ Resync, UNCHANGED clientVars
             PROVE  SafetyInv'
    OBVIOUS
<1>1. InformerInv'
    BY ServerStep, ReceiveStep, GapStep, RelistStep, ResyncStep DEF SafetyInv, InformerNext
<1>2. OrderInv'
    <2>1. CASE Resync
        <3>1. /\ Change("updated", store, store) \in Note
              /\ Change("updated", store, store).new = store
              /\ Change("updated", store, store).type # "deleted"
            BY Versions DEF Note, Change
        <3>2. /\ notes' = notes \o <<Change("updated", store, store)>>
              /\ UNCHANGED <<object, top, wire, store, newest>>
            BY <2>1 DEF Resync, Notify, clientVars
        <3> QED
            BY <3>1, <3>2, AgainOrder
    <2> QED
        BY <2>1, ServerOrder, ReceiveOrder, GapOrder, RelistOrder DEF InformerNext
<1>3. UNCHANGED <<listening, view, newest, missed>> /\ (synced => synced')
    BY DEF InformerNext, ServerChange, Receive, Gap, Relist, Resync, clientVars
<1>4. TypeOK'
    BY <1>1, <1>3 DEF SafetyInv, InformerInv, TypeOK
<1>5. listening /\ notes' = <<>> => notes = <<>> /\ store' = store
    <2> SUFFICES ASSUME listening, notes' = <<>> PROVE notes = <<>> /\ store' = store
        OBVIOUS
    <2>0. notes \in Seq(Note)
        BY Versions
    <2>1. ASSUME NEW note, notes' = notes \o <<note>> PROVE FALSE
        BY <2>0, <2>1
    <2>2. ~Receive /\ ~Resync
        BY <2>1 DEF Receive, Resync, Notify
    <2>3. CASE Relist
        <3>1. object = 0 /\ store = 0
            BY <2>1, <2>3 DEF Relist, Notify
        <3> QED
            BY <2>0, <2>3, <3>1 DEF Relist, Notify
    <2> QED
        BY <2>2, <2>3 DEF InformerNext, ServerChange, Gap
<1>6. ClientInv'
    BY <1>3, <1>5 DEF SafetyInv, ClientInv
<1> QED
    BY <1>1, <1>2, <1>4, <1>6 DEF SafetyInv

\* A handler takes a note, and sends what it says or drops a tombstone.
LEMMA HandlerStep == SafetyInv /\ (AddFunc \/ UpdateFunc \/ DeleteFunc) => SafetyInv'
<1> SUFFICES ASSUME SafetyInv, AddFunc \/ UpdateFunc \/ DeleteFunc PROVE SafetyInv'
    OBVIOUS
<1>0. /\ notes \in Seq(Note) /\ notes # <<>> /\ 1 \in DOMAIN notes /\ Head(notes) = notes[1]
      /\ notes[1].new \in Version /\ 0 \in Version
      /\ notes[1].new = 0 <=> notes[1].type \in {"deleted", "tombstone"}
    BY Versions, OneLess DEF AddFunc, UpdateFunc, DeleteFunc, NextIs
<1>1. Take
    BY DEF AddFunc, UpdateFunc, DeleteFunc
<1>2. InformerInv'
    BY <1>0, <1>1, TakeStep DEF SafetyInv
<1>3. \/ view' = notes[1].new /\ newest' = notes[1].new /\ missed' = FALSE
      \/ notes[1].type = "deleted" /\ view' = 0 /\ newest' = newest /\ missed' = FALSE
      \/ notes[1].type = "tombstone" /\ UNCHANGED <<view, newest>> /\ missed' = (missed \/ view # 0)
    BY <1>0 DEF AddFunc, UpdateFunc, DeleteFunc, Send, NextIs
<1>4. OrderInv'
    BY <1>0, <1>1, <1>3, TakeOrder
<1>5. listening /\ UNCHANGED <<listening, store, synced>>
    BY <1>0, <1>1 DEF SafetyInv, InformerInv, NotesInv, Take
<1>6. TypeOK'
    <2>1. view' \in Version /\ newest' \in Version
        BY <1>0, <1>3 DEF SafetyInv, TypeOK
    <2>2. missed' \in BOOLEAN
        BY <1>3 DEF SafetyInv, TypeOK
    <2> QED
        BY <1>2, <1>5, <2>1, <2>2 DEF SafetyInv, InformerInv, TypeOK
<1>7. ClientInv'
    <2>1. notes' = <<>> => notes[1].new = store
        <3>1. notes' = Tail(notes) /\ Len(notes') = Len(notes) - 1 /\ Len(notes) \in Nat
            BY <1>0, <1>1, OneLess DEF Take
        <3>2. ASSUME notes' = <<>> PROVE Len(notes) = 1
            <4>1. Len(notes') = 0
                BY <3>2
            <4> QED
                BY <3>1, <4>1
        <3>3. notes[Len(notes)].new = store
            BY <1>0 DEF SafetyInv, InformerInv, NotesInv
        <3> QED
            BY <3>2, <3>3
    <2>2. view' \in {0, newest'}
        BY <1>0, <1>3 DEF SafetyInv, ClientInv
    <2>3. notes' = <<>> => view' = store' \/ (store' = 0 /\ missed')
        <3> SUFFICES ASSUME notes' = <<>> PROVE view' = store \/ (store = 0 /\ missed')
            BY <1>5
        <3>1. CASE view' = notes[1].new
            BY <2>1, <3>1
        <3>2. CASE notes[1].type = "deleted" /\ view' = 0
            BY <1>0, <2>1, <3>2
        <3>3. CASE notes[1].type = "tombstone" /\ view' = view /\ missed' = (missed \/ view # 0)
            <4>1. store = 0
                BY <1>0, <2>1, <3>3
            <4>2. CASE view = 0
                BY <3>3, <4>1, <4>2
            <4>3. CASE view # 0
                BY <3>3, <4>1, <4>3
            <4> QED
                BY <4>2, <4>3
        <3> QED
            BY <1>3, <3>1, <3>2, <3>3
    <2> QED
        BY <1>5, <2>2, <2>3 DEF ClientInv
<1> QED
    BY <1>2, <1>4, <1>6, <1>7 DEF SafetyInv

\* No step leaves the invariant.
LEMMA SafetyStep == SafetyInv /\ [Next]_vars => SafetyInv'
<1> SUFFICES ASSUME SafetyInv, UNCHANGED vars PROVE SafetyInv'
    BY AddHandlerStep, InformerStep, HandlerStep DEF Next
<1>1. InformerInv'
    BY DEF SafetyInv, InformerInv, InformerTypeOK, LinkInv, NotesInv, NoteInv, vars, informerVars
<1>2. TypeOK' /\ ClientInv'
    BY DEF SafetyInv, TypeOK, InformerTypeOK, ClientInv, vars, informerVars
<1>3. OrderInv'
    BY DEF SafetyInv, OrderInv, Behind, BehindNotes, vars, informerVars
<1> QED
    BY <1>1, <1>2, <1>3 DEF SafetyInv

-----------------------------------------------------------------------------
(* The theorems                                                            *)

\* The inductive invariant of a watch.
THEOREM SafetyInvariant == Spec => []SafetyInv
    BY InitSafe, SafetyStep, PTL DEF Spec

\* Types, and that handlers are only there once the cache has synced.
THEOREM TypeCorrect == Spec => []TypeOK
<1>1. SafetyInv => TypeOK
    BY DEF SafetyInv
<1> QED
    BY SafetyInvariant, <1>1, PTL

\* The events of a watch, sent and due, make up the informer's store, but for
\* the deletions that DeleteFunc drops.
THEOREM EventsComplete == Spec => []EventsMakeUpStore
<1>1. ASSUME SafetyInv, listening
      PROVE  WillHold(store) \/ (store = 0 /\ (missed \/ Pending("tombstone")))
    <2>1. CASE notes = <<>>
        <3>1. Due = {}
            BY <2>1 DEF Due
        <3> QED
            BY <1>1, <2>1, <3>1 DEF SafetyInv, ClientInv, WillHold
    <2>2. CASE notes # <<>>
        <3>1. /\ notes \in Seq(Note) /\ Len(notes) \in DOMAIN notes
              /\ \A i \in DOMAIN notes : i \in Nat /\ i <= Len(notes)
              /\ notes[Len(notes)].new = store
            BY <1>1, <2>2, Versions DEF SafetyInv, InformerInv, NotesInv
        <3>2. store = 0 <=> notes[Len(notes)].type \in {"deleted", "tombstone"}
            BY <1>1, <3>1, Versions
        <3>3. CASE notes[Len(notes)].type = "tombstone"
            BY <3>1, <3>2, <3>3 DEF Pending
        <3>4. CASE notes[Len(notes)].type # "tombstone"
            <4>1. Len(notes) \in Due /\ \A i \in Due : i <= Len(notes)
                BY <3>1, <3>4 DEF Due
            <4>2. store = Shown(notes[Len(notes)])
                BY <3>1, <3>2, <3>4 DEF Shown
            <4> QED
                BY <4>1, <4>2 DEF WillHold
        <3> QED
            BY <3>3, <3>4
    <2> QED
        BY <2>1, <2>2
<1>2. SafetyInv => EventsMakeUpStore
    BY <1>1 DEF EventsMakeUpStore
<1> QED
    BY SafetyInvariant, <1>2, PTL

\* An informer without a client's events begins like a view that shows nothing.
LEMMA ViewInit == Init => View!OVInit
BY DEF Init, InformerInit, View!OVInit

\* Each step is one of the view's, or none: a change of the object is the same
\* there, an event shows or hides it, and all the informer does is not seen.
LEMMA ViewStep == SafetyInv /\ [Next]_vars => [View!OVNext]_View!ovVars
<1> SUFFICES ASSUME SafetyInv, [Next]_vars PROVE [View!OVNext]_View!ovVars
    OBVIOUS
<1> USE DEF View!ovVars
<1>1. CASE ServerChange /\ UNCHANGED clientVars
    BY <1>1 DEF ServerChange, clientVars, View!OVNext, View!Modify, View!Remove
<1>2. CASE (Receive \/ Gap \/ Relist \/ Resync) /\ UNCHANGED clientVars
    BY <1>2 DEF Receive, Gap, Relist, Resync, clientVars
<1>3. CASE AddEventHandler
    BY <1>3 DEF AddEventHandler, clientVars
<1>4. CASE AddFunc \/ UpdateFunc
    <2>1. /\ notes \in Seq(Note) /\ notes # <<>> /\ Head(notes) = notes[1] /\ 1 \in DOMAIN notes
          /\ notes[1].type \in {"added", "updated"}
          /\ view' = notes[1].new /\ newest' = notes[1].new /\ UNCHANGED <<object, top>>
        BY <1>4, Versions, OneLess DEF AddFunc, UpdateFunc, NextIs, Send, Take
    <2>2. notes[1].new \in Nat \ {0} /\ top \in Nat
        BY <2>1, Versions
    <2>3. notes[1].new <= top /\ notes[1].new >= newest
        BY <2>1, <2>2, Versions DEF SafetyInv, OrderInv, Behind, BehindNotes
    <2>4. notes[1].new \in 1 .. top
        BY <2>2, <2>3
    <2> QED
        BY <2>1, <2>3, <2>4 DEF View!OVNext, View!Show
<1>5. CASE DeleteFunc
    <2>1. CASE NextIs("tombstone") /\ UNCHANGED <<object, top, view, newest>>
        BY <2>1
    <2>2. CASE NextIs("deleted") /\ Take /\ Send("deleted", Head(notes).old)
        <3>1. /\ notes \in Seq(Note) /\ notes # <<>> /\ Head(notes) = notes[1] /\ 1 \in DOMAIN notes
              /\ notes[1].type = "deleted"
              /\ view' = 0 /\ newest' = newest /\ UNCHANGED <<object, top>>
            BY <2>2, Versions, OneLess DEF NextIs, Send, Take
        <3>2. object = 0 \/ newest < object
            BY <3>1 DEF SafetyInv, OrderInv, BehindNotes
        <3>3. CASE view = 0
            BY <3>1, <3>3
        <3>4. CASE view # 0
            <4>1. view = newest /\ view # object
                BY <3>2, <3>4, Versions DEF SafetyInv, ClientInv
            <4> QED
                BY <3>1, <4>1 DEF View!OVNext, View!Hide
        <3> QED
            BY <3>3, <3>4
    <2> QED
        BY <1>5, <2>1, <2>2 DEF DeleteFunc, Take
<1>6. CASE UNCHANGED vars
    BY <1>6 DEF vars, informerVars
<1> QED
    BY <1>1, <1>2, <1>3, <1>4, <1>5, <1>6 DEF Next, InformerNext

\* What a client of a watch sees is an ObjectView: only versions that existed,
\* in their order, and no version vanishes while it is the current one.
THEOREM Refinement == Spec => ImplementsObjectView
<1>1. Spec => View!OVInit /\ [][View!OVNext]_View!ovVars
    BY ViewInit, ViewStep, SafetyInvariant, PTL DEF Spec
<1> QED
    BY <1>1 DEF ImplementsObjectView, View!OVSpec
=============================================================================

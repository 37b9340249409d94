--------------------------- MODULE InformerProofs ---------------------------
(***************************************************************************)
(* Lemmas about the Informer that the proofs of the modules it runs in     *)
(* need: what the store, the wire and the notes have to do with each       *)
(* other, whatever the handlers on top of it do with the notes.            *)
(***************************************************************************)
EXTENDS Informer, TLAPS

\* Without a connection nothing is on its way; with one, what is on its way
\* ends with the object as it is, and brings the store there.
LinkInv ==
    /\ ~linked => wire = <<>>
    /\ linked => object = IF wire = <<>> THEN store ELSE wire[Len(wire)]

\* A note says by its type whether there was an object before and is one after.
NoteInv(note) ==
    /\ note.new = 0 <=> note.type \in {"deleted", "tombstone"}
    /\ note.type = "added" => note.old = 0

\* The notes are the history of the store: each begins where the one before it
\* ended, and the last ends with what the store holds.
NotesInv ==
    /\ ~listening => notes = <<>>
    /\ \A i \in 1 .. Len(notes) : NoteInv(notes[i])
    /\ \A i \in 2 .. Len(notes) : notes[i].old = notes[i - 1].new
    /\ notes # <<>> => notes[Len(notes)].new = store

\* The version of the store up to which the handlers have taken the notes.
Handled == IF notes = <<>> THEN store ELSE notes[1].old

InformerInv == InformerTypeOK /\ LinkInv /\ NotesInv

-----------------------------------------------------------------------------
(* Sequences at both ends                                                  *)

\* What one more element at the end leaves and adds.
LEMMA OneMore ==
    ASSUME NEW S, NEW s \in Seq(S), NEW e \in S
    PROVE  /\ s \o <<e>> \in Seq(S) /\ s \o <<e>> # <<>>
           /\ Append(s, e) = s \o <<e>>
           /\ Len(s \o <<e>>) = Len(s) + 1
           /\ (s \o <<e>>)[Len(s) + 1] = e
           /\ \A i \in 1 .. Len(s) : (s \o <<e>>)[i] = s[i]
OBVIOUS

\* What the first element leaves when it is taken.
LEMMA OneLess ==
    ASSUME NEW S, NEW s \in Seq(S), s # <<>>
    PROVE  /\ Head(s) = s[1] /\ Head(s) \in S
           /\ Tail(s) \in Seq(S)
           /\ Len(s) \in Nat \ {0} /\ Len(Tail(s)) = Len(s) - 1
           /\ \A i \in 1 .. Len(s) - 1 : Tail(s)[i] = s[i + 1]
           /\ \A i \in 1 .. Len(s) : s[i] \in S
OBVIOUS

-----------------------------------------------------------------------------
(* The steps of the informer                                               *)

\* A note of the change from what the store holds to new continues the history.
LEMMA NoteTaken ==
    ASSUME InformerInv, Room, NEW note \in Note, NoteInv(note),
           note.old = store, note.new = store',
           listening, listening' = listening, notes' = notes \o <<note>>
    PROVE  NotesInv' /\ notes' \in Seq(Note) /\ Len(notes') <= MaxNotes
<1> USE BoundsAssumption
<1>1. notes \in Seq(Note) /\ NotesInv
    BY DEF InformerInv, InformerTypeOK
<1>2. /\ notes' \in Seq(Note) /\ notes' # <<>>
      /\ Len(notes') = Len(notes) + 1 /\ Len(notes) \in Nat
      /\ notes'[Len(notes) + 1] = note
      /\ \A i \in 1 .. Len(notes) : notes'[i] = notes[i]
    BY <1>1, OneMore
<1>3. Len(notes') <= MaxNotes
    BY <1>2 DEF Room
<1>4. \A i \in 1 .. Len(notes') : NoteInv(notes'[i])
    BY <1>1, <1>2 DEF NotesInv
<1>5. ASSUME NEW i \in 2 .. Len(notes') PROVE notes'[i].old = notes'[i - 1].new
    <2>1. CASE i <= Len(notes)
        BY <1>1, <1>2, <2>1 DEF NotesInv
    <2>2. CASE i = Len(notes) + 1
        <3>1. notes # <<>>
            BY <1>1, <2>2
        <3> QED
            BY <1>1, <1>2, <2>2, <3>1 DEF NotesInv
    <2> QED
        BY <1>2, <2>1, <2>2
<1> QED
    BY <1>2, <1>3, <1>4, <1>5 DEF NotesInv, NoteInv

\* The store changes, and the handlers hear of it if they are there.
LEMMA StoreStep ==
    ASSUME InformerInv, Room, NEW note \in Note, NoteInv(note),
           note.old = store, note.new = store', UNCHANGED listening, Notify(<<note>>)
    PROVE  NotesInv' /\ notes' \in Seq(Note) /\ Len(notes') <= MaxNotes
<1>1. CASE listening
    BY <1>1, NoteTaken DEF Notify
<1>2. CASE ~listening
    BY <1>2 DEF Notify, InformerInv, InformerTypeOK, NotesInv
<1> QED
    BY <1>1, <1>2

\* The API server changes the object and tells the watch.
LEMMA ServerStep == InformerInv /\ ServerChange => InformerInv'
<1> SUFFICES ASSUME InformerInv, ServerChange PROVE InformerInv'
    OBVIOUS
<1> USE BoundsAssumption DEF Version
<1>1. object' \in Version /\ top' \in Version
    BY DEF InformerInv, InformerTypeOK, ServerChange
<1>2. wire' \in Seq(Version) /\ LinkInv'
    <2>1. CASE linked
        <3>1. wire \in Seq(Version) /\ wire' = Append(wire, object') /\ linked'
            BY <2>1 DEF InformerInv, InformerTypeOK, ServerChange
        <3>2. /\ wire' \in Seq(Version) /\ wire' # <<>>
              /\ wire'[Len(wire')] = object'
            <4> HIDE DEF Version
            <4> QED
                BY <1>1, <3>1, OneMore
        <3> QED
            BY <3>1, <3>2 DEF LinkInv
    <2>2. CASE ~linked
        BY <2>2 DEF InformerInv, InformerTypeOK, ServerChange, LinkInv
    <2> QED
        BY <2>1, <2>2
<1>3. InformerTypeOK'
    BY <1>1, <1>2 DEF InformerInv, InformerTypeOK, ServerChange
<1>4. NotesInv'
    BY DEF InformerInv, ServerChange, NotesInv, NoteInv
<1> QED
    BY <1>2, <1>3, <1>4 DEF InformerInv

\* The informer receives one change over the wire.
LEMMA ReceiveStep == InformerInv /\ Receive => InformerInv'
<1> SUFFICES ASSUME InformerInv, Receive PROVE InformerInv'
    OBVIOUS
<1> DEFINE note == IF Head(wire) = 0 THEN Change("deleted", store, 0)
                                     ELSE Updated(store, Head(wire))
<1>1. /\ wire \in Seq(Version) /\ wire # <<>> /\ store \in Version /\ 0 \in Version
      /\ wire' = Tail(wire) /\ store' = Head(wire) /\ Room
      /\ UNCHANGED <<object, top, linked, synced, listening>> /\ Notify(<<note>>)
    BY BoundsAssumption DEF InformerInv, InformerTypeOK, Receive, Version
<1>2. /\ Head(wire) = wire[1] /\ Head(wire) \in Version /\ wire' \in Seq(Version)
      /\ Len(wire) \in Nat \ {0} /\ Len(wire') = Len(wire) - 1
      /\ \A i \in 1 .. Len(wire) - 1 : wire'[i] = wire[i + 1]
    BY <1>1, OneLess
<1>3. note \in Note /\ NoteInv(note) /\ note.old = store /\ note.new = store'
    BY <1>1, <1>2 DEF Note, NoteInv, Change, Updated
<1>4. NotesInv' /\ notes' \in Seq(Note) /\ Len(notes') <= MaxNotes
    <2> HIDE DEF note
    <2> QED
        BY <1>1, <1>3, StoreStep
<1>5. InformerTypeOK'
    BY <1>1, <1>2, <1>4 DEF InformerInv, InformerTypeOK
<1>6. LinkInv'
    <2>1. linked /\ object = wire[Len(wire)]
        BY <1>1 DEF InformerInv, LinkInv
    <2>2. CASE Len(wire) = 1
        BY <1>1, <1>2, <2>1, <2>2 DEF LinkInv
    <2>3. CASE Len(wire) > 1
        <3>1. wire'[Len(wire')] = wire[Len(wire)] /\ wire' # <<>>
            BY <1>2, <2>3
        <3> QED
            BY <1>1, <2>1, <3>1 DEF LinkInv
    <2> QED
        BY <1>2, <2>2, <2>3
<1> QED
    BY <1>4, <1>5, <1>6 DEF InformerInv

\* The connection breaks.
LEMMA GapStep == InformerInv /\ Gap => InformerInv'
<1> SUFFICES ASSUME InformerInv, Gap PROVE InformerInv'
    OBVIOUS
<1>1. InformerTypeOK'
    <2>1. InformerTypeOK
        BY DEF InformerInv
    <2>2. linked' \in BOOLEAN
        BY DEF Gap
    <2>3. wire' \in Seq(Version)
        BY DEF Gap
    <2> QED
        BY <2>1, <2>2, <2>3 DEF InformerTypeOK, Gap
<1>2. LinkInv'
    BY DEF Gap, LinkInv
<1>3. NotesInv'
    BY DEF InformerInv, Gap, NotesInv, NoteInv
<1> QED
    BY <1>1, <1>2, <1>3 DEF InformerInv

\* A new list takes the store to the object as it is.
LEMMA RelistStep == InformerInv /\ Relist => InformerInv'
<1> SUFFICES ASSUME InformerInv, Relist PROVE InformerInv'
    OBVIOUS
<1>1. /\ object \in Version /\ store \in Version /\ 0 \in Version /\ Room
      /\ store' = object /\ UNCHANGED <<object, top, wire, listening>>
      /\ linked' = TRUE /\ synced' = TRUE /\ wire = <<>>
    BY BoundsAssumption DEF InformerInv, InformerTypeOK, LinkInv, Relist, Version
<1>2. NotesInv' /\ notes' \in Seq(Note) /\ Len(notes') <= MaxNotes
    <2>1. CASE object # 0
        <3>1. /\ Updated(store, object) \in Note /\ NoteInv(Updated(store, object))
              /\ Updated(store, object).old = store /\ Updated(store, object).new = store'
            BY <1>1, <2>1 DEF Note, NoteInv, Change, Updated
        <3>2. Notify(<<Updated(store, object)>>)
            BY <2>1 DEF Relist
        <3> QED
            BY <1>1, <3>1, <3>2, StoreStep
    <2>2. CASE object = 0 /\ store # 0
        <3>1. /\ Change("tombstone", store, 0) \in Note /\ NoteInv(Change("tombstone", store, 0))
              /\ Change("tombstone", store, 0).old = store
              /\ Change("tombstone", store, 0).new = store'
            BY <1>1, <2>2 DEF Note, NoteInv, Change
        <3>2. Notify(<<Change("tombstone", store, 0)>>)
            BY <2>2 DEF Relist
        <3> QED
            BY <1>1, <3>1, <3>2, StoreStep
    <2>3. CASE object = 0 /\ store = 0
        <3>1. notes' = notes
            BY <2>3 DEF Relist, Notify, InformerInv, InformerTypeOK
        <3> QED
            BY <1>1, <2>3, <3>1 DEF InformerInv, InformerTypeOK, NotesInv, NoteInv
    <2> QED
        BY <2>1, <2>2, <2>3
<1>3. InformerTypeOK' /\ LinkInv'
    BY <1>1, <1>2 DEF InformerInv, InformerTypeOK, LinkInv
<1> QED
    BY <1>2, <1>3 DEF InformerInv

\* The periodic resync notes what the store holds once more.
LEMMA ResyncStep == InformerInv /\ Resync => InformerInv'
<1> SUFFICES ASSUME InformerInv, Resync PROVE InformerInv'
    OBVIOUS
<1> DEFINE note == Change("updated", store, store)
<1>1. /\ store \in Version /\ store # 0 /\ Room /\ Notify(<<note>>)
      /\ UNCHANGED <<object, top, linked, wire, store, synced, listening>>
    BY BoundsAssumption DEF InformerInv, InformerTypeOK, Resync, Room
<1>2. note \in Note /\ NoteInv(note) /\ note.old = store /\ note.new = store'
    BY <1>1 DEF Note, NoteInv, Change
<1>3. NotesInv' /\ notes' \in Seq(Note) /\ Len(notes') <= MaxNotes
    <2> HIDE DEF note
    <2> QED
        BY <1>1, <1>2, StoreStep
<1> QED
    BY <1>1, <1>3 DEF InformerInv, InformerTypeOK, LinkInv

\* The handlers take the first note.
LEMMA TakeStep == InformerInv /\ notes # <<>> /\ Take => InformerInv'
<1> SUFFICES ASSUME InformerInv, notes # <<>>, Take PROVE InformerInv'
    OBVIOUS
<1>1. /\ notes \in Seq(Note) /\ NotesInv /\ Len(notes) <= MaxNotes /\ notes' = Tail(notes)
      /\ UNCHANGED <<object, top, linked, wire, store, synced, listening>>
    BY DEF InformerInv, InformerTypeOK, Take
<1>2. /\ notes' \in Seq(Note)
      /\ Len(notes) \in Nat \ {0} /\ Len(notes') = Len(notes) - 1
      /\ \A i \in 1 .. Len(notes) - 1 : notes'[i] = notes[i + 1]
    BY <1>1, OneLess
<1>3. NotesInv'
    <2>1. \A i \in 1 .. Len(notes') : NoteInv(notes'[i])
        BY <1>1, <1>2 DEF NotesInv
    <2>2. \A i \in 2 .. Len(notes') : notes'[i].old = notes'[i - 1].new
        BY <1>1, <1>2 DEF NotesInv
    <2>3. notes' # <<>> => notes'[Len(notes')].new = store'
        BY <1>1, <1>2 DEF NotesInv
    <2> QED
        BY <1>1, <2>1, <2>2, <2>3 DEF NotesInv, NoteInv
<1>4. InformerTypeOK' /\ LinkInv'
    BY <1>1, <1>2, BoundsAssumption DEF InformerInv, InformerTypeOK, LinkInv
<1> QED
    BY <1>3, <1>4 DEF InformerInv

-----------------------------------------------------------------------------
(* What the handlers have taken                                            *)

\* The informer does not change what has been handled: its notes begin there.
LEMMA HandledKept == InformerInv /\ listening /\ (InformerNext \/ Resync) => Handled' = Handled
<1> SUFFICES ASSUME InformerInv, listening, InformerNext \/ Resync PROVE Handled' = Handled
    OBVIOUS
<1>1. notes \in Seq(Note)
    BY DEF InformerInv, InformerTypeOK
<1>2. ASSUME NEW note, note.old = store, Notify(<<note>>) PROVE Handled' = Handled
    <2>1. notes' = notes \o <<note>>
        BY <1>2 DEF Notify
    <2>2. CASE notes = <<>>
        BY <1>2, <2>1, <2>2 DEF Handled
    <2>3. CASE notes # <<>>
        BY <1>1, <2>1, <2>3 DEF Handled
    <2> QED
        BY <2>2, <2>3
<1>3. CASE ServerChange \/ Gap
    BY <1>3 DEF ServerChange, Gap, Handled
<1>4. CASE Receive
    BY <1>2, <1>4 DEF Receive, Change, Updated
<1>5. CASE Relist
    <2>1. CASE object # 0
        BY <1>2, <1>5, <2>1 DEF Relist, Change, Updated
    <2>2. CASE object = 0 /\ store # 0
        BY <1>2, <1>5, <2>2 DEF Relist, Change
    <2>3. CASE object = 0 /\ store = 0
        BY <1>1, <1>5, <2>3 DEF Relist, Notify, Handled
    <2> QED
        BY <2>1, <2>2, <2>3
<1>6. CASE Resync
    BY <1>2, <1>6 DEF Resync, Change
<1> QED
    BY <1>3, <1>4, <1>5, <1>6 DEF InformerNext

\* Taking a note brings the handlers to what it notes.
LEMMA HandledTaken == InformerInv /\ notes # <<>> /\ Take => Handled' = notes[1].new
<1> SUFFICES ASSUME InformerInv, notes # <<>>, Take PROVE Handled' = notes[1].new
    OBVIOUS
<1>1. /\ notes \in Seq(Note) /\ notes' = Tail(notes) /\ store' = store /\ NotesInv
    BY DEF InformerInv, InformerTypeOK, Take
<1>2. /\ Len(notes) \in Nat \ {0} /\ Len(notes') = Len(notes) - 1 /\ notes' \in Seq(Note)
      /\ \A i \in 1 .. Len(notes) - 1 : notes'[i] = notes[i + 1]
    BY <1>1, OneLess
<1>3. CASE Len(notes) = 1
    <2>1. notes' = <<>> /\ notes[1].new = store
        BY <1>1, <1>2, <1>3 DEF NotesInv
    <2> QED
        BY <1>1, <2>1 DEF Handled
<1>4. CASE Len(notes) > 1
    <2>1. notes' # <<>> /\ notes'[1] = notes[2]
        BY <1>2, <1>4
    <2>2. notes[2].old = notes[2 - 1].new
        BY <1>1, <1>2, <1>4 DEF NotesInv
    <2> QED
        BY <2>1, <2>2 DEF Handled
<1> QED
    BY <1>2, <1>3, <1>4
=============================================================================

---------------------------- MODULE WatchEvents ----------------------------
(***************************************************************************)
(* What a kubeObjects.watch call reports (WatchHandler.Handle and           *)
(* encodeResponse in api/stream/rpc/kube/objects/watch.go): the handlers    *)
(* it adds once the informer's cache has synced, and the events they put    *)
(* on reply.  RpcStream shows that replies reach the client in order.       *)
(***************************************************************************)
EXTENDS Informer, SequencesExt

VARIABLES
    view,      \* the version a client that follows the events holds
    newest,    \* greatest version sent to it
    missed     \* a deletion of what it holds has been dropped

vars == <<informerVars, view, newest, missed>>

Init ==
    /\ InformerInit
    /\ listening = FALSE
    /\ view = 0
    /\ newest = 0
    /\ missed = FALSE

clientVars == <<view, newest, missed>>

\* After WaitForCacheSync; the informer replays its store to new handlers.
AddEventHandler ==
    /\ synced /\ ~listening
    /\ listening' = TRUE
    /\ notes' = IF store = 0 THEN <<>> ELSE <<Updated(0, store)>>
    /\ UNCHANGED <<object, top, linked, wire, store, synced, clientVars>>

\* reply <- encodeResponse(call, obj, event, nil): the client applies it.
Send(event, v) ==
    /\ view' = IF event = "deleted" THEN 0 ELSE v
    /\ newest' = IF event = "deleted" THEN newest ELSE v
    /\ missed' = FALSE

AddFunc == NextIs("added") /\ Take /\ Send("added", Head(notes).new)

\* Mutant: the old object is sent.
UpdateFunc_Old == NextIs("updated") /\ Take /\ Send("updated", Head(notes).old)

\* Mutant: each update is sent by a goroutine of its own.
UpdateFunc_Go ==
    \E i \in DOMAIN notes :
        /\ notes[i].type = "updated"
        /\ notes' = RemoveAt(notes, i)
        /\ UNCHANGED <<object, top, linked, wire, store, synced, listening>>
        /\ Send("updated", notes[i].new)

UpdateFunc == NextIs("updated") /\ Take /\ Send("updated", Head(notes).new)

\* Mutant: no DeleteFunc is given.
DeleteFunc_None ==
    /\ NextIs("deleted") \/ NextIs("tombstone")
    /\ Take /\ UNCHANGED clientVars

\* A tombstone is no *unstructured.Unstructured: nothing is sent.
DeleteFunc ==
    /\ \/ NextIs("deleted") /\ Take /\ Send("deleted", Head(notes).old)
       \/ /\ NextIs("tombstone") /\ Take
          /\ missed' = (missed \/ view # 0)
          /\ UNCHANGED <<view, newest>>

Next ==
    \/ (InformerNext \/ Resync) /\ UNCHANGED clientVars
    \/ AddEventHandler \/ AddFunc \/ UpdateFunc \/ DeleteFunc

Spec == Init /\ [][Next]_vars

\* The informer's goroutines run, and the connection to the API server is
\* made again; the cluster owes nothing.
Fairness ==
    /\ WF_vars(Receive /\ UNCHANGED clientVars)
    /\ WF_vars(Relist /\ UNCHANGED clientVars)
    /\ WF_vars(AddEventHandler)
    /\ WF_vars(AddFunc \/ UpdateFunc \/ DeleteFunc)

FairSpec == Spec /\ Fairness

-----------------------------------------------------------------------------
(* Properties                                                              *)

TypeOK ==
    /\ InformerTypeOK
    /\ view \in Version /\ newest \in Version
    /\ missed \in BOOLEAN
    /\ listening => synced

\* The notes that become events, and the version each shows.
Due == {i \in DOMAIN notes : notes[i].type # "tombstone"}
Shown(note) == IF note.type = "deleted" THEN 0 ELSE note.new

\* The client holds v once it has got every event that is due.
WillHold(v) ==
    IF Due = {} THEN v = view
    ELSE \E last \in Due : v = Shown(notes[last]) /\ \A i \in Due : i <= last

Pending(type) == \E i \in DOMAIN notes : notes[i].type = type

\* Once the handlers of WatchHandler.Handle are there, the events they have sent
\* and those they will send for the notes still due make up the informer's
\* store, over gaps, lists that repeat an object, resyncs and the replay to a
\* late handler; all that is lost is a deletion learnt from a list, which
\* DeleteFunc drops.
EventsMakeUpStore ==
    listening => WillHold(store) \/ (store = 0 /\ (missed \/ Pending("tombstone")))

\* The refinement: what a client of the watch sees is an ObjectView.
View == INSTANCE ObjectView WITH shown <- view

\* The events of a watch show only versions that existed, in their order, and
\* hide an object only when what is shown of it is gone.
ImplementsObjectView == View!OVSpec

\* When the connection to the API server stays up and the object comes to
\* rest, the client of a watch ends up with the object as it is, or with one
\* whose deletion DeleteFunc dropped.
ViewConverges ==
    <>[]linked => <>[](view = object \/ (missed /\ object = 0))
=============================================================================

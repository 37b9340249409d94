------------------------------- MODULE RestApi -------------------------------
(***************************************************************************)
(* The REST handlers (api/rest): concurrent requests about one object of   *)
(* a cluster.  A request decodes its body, finds its context's client,     *)
(* makes one call to the Kubernetes API and answers with what came back.   *)
(* The API server is external: it keeps the object under a version that    *)
(* grows with each change, refuses an update based on another version, and *)
(* may fail, also after it has done what it was asked.  It answers a delete *)
(* without error as soon as it has marked the object: one with finalizers  *)
(* or a grace period can still be read and replaced until it goes.         *)
(***************************************************************************)
EXTENDS Naturals

CONSTANTS
    Req,        \* the requests
    MaxBase,    \* greatest version a request body may carry
    Asked       \* what they may ask, a subset of Request

VARIABLES
    req,        \* what each request asks: [op, known, body, base]
    pc,         \* its handler
    result,     \* what the API call returned to it
    reply,      \* the status the client receives, 0 while there is none
    effect,     \* what the API server did for it
    object,     \* version of the object, 0 when it does not exist
    top,        \* last version given to it
    terminating, \* the object is marked for deletion
    deletedAt,  \* history: top when a call removed, marked or missed the object
    discovery   \* the context's discovery client has been made

server == <<object, top, terminating, deletedAt>>
vars == <<req, pc, result, reply, effect, server, discovery>>

\* A connection closed without an answer: net/http recovers the panic of a
\* handler and drops what it had buffered.
Dropped == 1

Op == {"get", "list", "update", "delete", "environments", "resources", "contexts"}

\* The handlers that take the client of the context in the path.
ObjectOp == {"get", "list", "update", "delete"}

\* known: the pool has the context; body and base only matter for an update.
\* "list" is a body with items, which does not decode into a single object.
Request ==
    [op : Op \ {"update"}, known : BOOLEAN, body : {"object"}, base : {0}] \cup
    [op : {"update"}, known : BOOLEAN, body : {"object", "list", "junk"},
     base : 0 .. MaxBase]

ASSUME RestAssumption == MaxBase \in Nat /\ Asked \subseteq Request

Init ==
    /\ req \in [Req -> Asked]
    /\ pc = [r \in Req |-> "new"]
    /\ result = [r \in Req |-> "none"]
    /\ reply = [r \in Req |-> 0]
    /\ effect = [r \in Req |-> "none"]
    /\ object \in 0 .. 1
    /\ top = object
    /\ terminating \in BOOLEAN /\ (terminating => object # 0)
    /\ deletedAt = [r \in Req |-> 0]
    /\ discovery = FALSE

\* The handler returns after it has answered with status s.
Answer(r, s) ==
    /\ pc' = [pc EXCEPT ![r] = "done"]
    /\ reply' = [reply EXCEPT ![r] = s]

Goto(r, l) == pc' = [pc EXCEPT ![r] = l] /\ UNCHANGED reply

-----------------------------------------------------------------------------
\* The environments handler takes the pool's current context, which is never
\* nil; the contexts handler only reads the pool.
Arrive(r) ==
    /\ pc[r] = "new"
    /\ \/ req[r].op = "update" /\ Goto(r, "decode")
       \/ req[r].op = "environments" /\ Goto(r, "call")
       \/ req[r].op = "contexts" /\ Answer(r, 200)
       \/ req[r].op \notin {"update", "environments", "contexts"} /\ Goto(r, "context")
    /\ UNCHANGED <<req, result, effect, server, discovery>>

\* unstructuredObjectFromRequest.  A body that is a list is answered with 500,
\* but returned as a nil object with a nil error: Update goes on.
DecodeBody(r) ==
    /\ pc[r] = "decode"
    /\ IF req[r].body = "junk" THEN Answer(r, 500) ELSE Goto(r, "context")
    /\ UNCHANGED <<req, result, effect, server, discovery>>

\* The object handlers' kubeClient writes a 404 for an unknown context but
\* does not return, and dereferences the nil context.  A context of the pool
\* has had its dynamic client since it was added.
FindContext(r) ==
    /\ pc[r] = "context"
    /\ \/ req[r].known /\ Goto(r, "call")
       \/ ~req[r].known /\ req[r].op \in ObjectOp /\ Answer(r, Dropped)
       \/ ~req[r].known /\ req[r].op = "resources" /\ Answer(r, 404)
    /\ UNCHANGED <<req, result, effect, server, discovery>>

\* DiscoveryClient makes its client at the first call that succeeds.
DiscoveryFails(r) ==
    /\ pc[r] = "call"
    /\ req[r].op = "resources"
    /\ ~discovery
    /\ Answer(r, 500)
    /\ UNCHANGED <<req, result, effect, server, discovery>>

-----------------------------------------------------------------------------
(* The call to the API server                                              *)

Returns(r, res) ==
    /\ result' = [result EXCEPT ![r] = res]
    /\ Goto(r, "answer")
    /\ discovery' = (discovery \/ req[r].op = "resources")
    /\ UNCHANGED req

\* Reading calls, and the calls that fail before anything is done.
CallReads(r) ==
    /\ pc[r] = "call"
    /\ req[r].op \notin {"update", "delete"}
    /\ Returns(r, IF req[r].op = "get" /\ object = 0 THEN "absent" ELSE "ok")
    /\ UNCHANGED <<effect, server>>

CallFails(r) ==
    /\ pc[r] = "call"
    /\ req[r].body = "object"
    /\ Returns(r, "error")
    /\ UNCHANGED <<effect, server>>

\* The object an update or a delete is about does not exist.
CallAbsent(r) ==
    /\ pc[r] = "call"
    /\ req[r].op \in {"update", "delete"} /\ req[r].body = "object"
    /\ object = 0
    /\ effect' = [effect EXCEPT ![r] = "absent"]
    /\ deletedAt' = [deletedAt EXCEPT ![r] = top]
    /\ Returns(r, "absent")
    /\ UNCHANGED <<object, top, terminating>>

\* An update is done if its object carries no version or the current one; it
\* leaves the mark of a deletion on it.
CallUpdates(r) ==
    /\ pc[r] = "call"
    /\ req[r].op = "update" /\ req[r].body = "object"
    /\ object # 0 /\ req[r].base \in {0, object}
    /\ object' = top + 1 /\ top' = top + 1
    /\ UNCHANGED <<terminating, deletedAt>>
    /\ effect' = [effect EXCEPT ![r] = "done"]
    /\ \E res \in {"ok", "error"} : Returns(r, res)

\* The object goes at once, or is marked and stays; a mark is made only once.
Remove == object' = 0 /\ terminating' = FALSE /\ UNCHANGED top
Mark == object' = top + 1 /\ top' = top + 1 /\ terminating' = TRUE

CallDeletes(r) ==
    /\ pc[r] = "call"
    /\ req[r].op = "delete"
    /\ object # 0
    /\ \/ Remove
       \/ ~terminating /\ Mark
       \/ terminating /\ UNCHANGED <<object, top, terminating>>
    /\ deletedAt' = [deletedAt EXCEPT ![r] = top']
    /\ effect' = [effect EXCEPT ![r] = "done"]
    /\ \E res \in {"ok", "error"} : Returns(r, res)

\* Update with the nil object panics in the client.
CallPanics(r) ==
    /\ pc[r] = "call"
    /\ req[r].op = "update" /\ req[r].body = "list"
    /\ Answer(r, Dropped)
    /\ UNCHANGED <<req, result, effect, server, discovery>>

-----------------------------------------------------------------------------
\* Mutant: the conflict of an update is answered like its success.
Respond_UpdateOk(r) ==
    /\ pc[r] = "answer"
    /\ Answer(r, CASE req[r].op = "update" -> 200
                   [] req[r].op # "update" /\ result[r] = "error" -> 500
                   [] OTHER -> 200)
    /\ UNCHANGED <<req, result, effect, server, discovery>>

\* The status for each result: only Get reports an object that is not there,
\* an update or a delete of it is answered like one that was done.
Respond(r) ==
    /\ pc[r] = "answer"
    /\ Answer(r, CASE result[r] = "error" -> 500
                   [] result[r] # "error" /\ req[r].op = "delete" -> 204
                   [] result[r] = "absent" /\ req[r].op = "get" -> 404
                   [] OTHER -> 200)
    /\ UNCHANGED <<req, result, effect, server, discovery>>

Handle(r) ==
    \/ Arrive(r) \/ DecodeBody(r) \/ FindContext(r) \/ DiscoveryFails(r)
    \/ CallReads(r) \/ CallFails(r) \/ CallAbsent(r) \/ CallUpdates(r)
    \/ CallDeletes(r) \/ CallPanics(r) \/ Respond(r)

\* The last finalizer of a marked object is done, or its grace period over.
Finalize ==
    /\ object # 0 /\ terminating
    /\ Remove
    /\ UNCHANGED <<req, pc, result, reply, effect, deletedAt, discovery>>

Finished == (\A r \in Req : pc[r] = "done") /\ UNCHANGED vars

Next == (\E r \in Req : Handle(r)) \/ Finalize \/ Finished

Spec == Init /\ [][Next]_vars

-----------------------------------------------------------------------------
(* Properties                                                              *)

TypeOK ==
    /\ req \in [Req -> Request]
    /\ pc \in [Req -> {"new", "decode", "context", "call", "answer", "done"}]
    /\ result \in [Req -> {"none", "ok", "absent", "error"}]
    /\ reply \in [Req -> {0, Dropped, 200, 204, 404, 500}]
    /\ effect \in [Req -> {"none", "done", "absent"}]
    /\ object \in Nat /\ top \in Nat
    /\ terminating \in BOOLEAN /\ deletedAt \in [Req -> Nat]
    /\ discovery \in BOOLEAN

\* The answer that an update or a delete was carried out (200, 204) is given
\* only if the API server did so or had no such object: a conflict or a failed
\* call is never passed off as success.
SuccessIsTrue ==
    \A r \in Req :
        (req[r].op = "update" /\ reply[r] = 200)
            \/ (req[r].op = "delete" /\ reply[r] = 204)
        => effect[r] \in {"done", "absent"}

\* "unknown context" is answered with http.StatusNotFound (objects.go:34).
UnknownContextIs404 ==
    \A r \in Req :
        reply[r] # 0 /\ ~req[r].known /\ req[r].op \in ObjectOp /\ req[r].body # "junk"
        => reply[r] = 404
=============================================================================

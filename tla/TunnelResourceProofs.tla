------------------------ MODULE TunnelResourceProofs ------------------------
(***************************************************************************)
(* Theorems about TunnelResource and the REST requests it runs beside, for *)
(* any sets of requests and creators.  What the properties rest on: a      *)
(* handler's answer follows its result and its result what the API server  *)
(* did (RestInv); versions only grow, so that one which has been replaced  *)
(* is not current again (GrowInv); a creator carries the version it read   *)
(* into its write (CreatorInv); and an object that a delete has dealt with *)
(* is gone, marked or a creator's new one (DeleteInv).                     *)
(***************************************************************************)
EXTENDS TunnelResource, TLAPS

Label == {"context", "labels", "get", "post", "put", "created", "failed"}

CreatorTypes ==
    /\ pcOf \in [Creator -> Label]
    /\ base \in [Creator -> Nat] /\ written \in [Creator -> Nat]

RestInv ==
    \A r \in Req :
        /\ pc[r] = "decode" => req[r].op = "update"
        /\ pc[r] = "context" => req[r].op \in ObjectOp \cup {"resources"}
        /\ pc[r] = "answer" => result[r] # "none"
        /\ pc[r] # "done" => reply[r] = 0
        /\ req[r].op \in {"update", "delete"} =>
            /\ reply[r] \in {200, 204} => result[r] \in {"ok", "absent"}
            /\ result[r] \in {"ok", "absent"} => effect[r] \in {"done", "absent"}

GrowInv ==
    /\ object \in {0, top}
    /\ \A r \in Req : deletedAt[r] <= top
    /\ \A r \in Updates : req[r].base # 0 => req[r].base < top
    /\ \A c \in Creator :
        /\ base[c] <= top /\ written[c] <= top
        /\ written[c] # 0 => base[c] < written[c]

CreatorInv ==
    \A c \in Creator :
        /\ pcOf[c] \in {"context", "labels", "get", "post"} => base[c] = 0
        /\ pcOf[c] = "put" => base[c] # 0
        /\ pcOf[c] \in {"context", "labels", "get", "post", "put"} => written[c] = 0
        /\ pcOf[c] = "created" => written[c] # 0

\* An object that a delete found gone, removed or marked lives on only if a
\* creator has made it since.
DeleteInv ==
    \A r \in Req : req[r].op = "delete" /\ effect[r] \in {"done", "absent"} =>
        \/ object = 0 \/ terminating
        \/ \E c \in Replacers : base[c] = 0 /\ written[c] > deletedAt[r]

SafetyInv ==
    /\ TypeOK
    /\ CreatorTypes
    /\ RestInv
    /\ GrowInv
    /\ CreatorInv
    /\ DeleteInv
    /\ NoLostUpdate

-----------------------------------------------------------------------------
\* Nothing that counts for the invariant is there at first.
LEMMA InitSafe == TunnelInit => SafetyInv
<1> SUFFICES ASSUME TunnelInit PROVE SafetyInv
    OBVIOUS
<1> USE RestAssumption DEF TunnelInit, Init
<1>1. req \in [Req -> Request]
    OBVIOUS
<1>2. TypeOK
    <2>1. /\ pc \in [Req -> {"new", "decode", "context", "call", "answer", "done"}]
          /\ result \in [Req -> {"none", "ok", "absent", "error"}]
          /\ reply \in [Req -> {0, Dropped, 200, 204, 404, 500}]
          /\ effect \in [Req -> {"none", "done", "absent"}]
        OBVIOUS
    <2>2. object \in Nat /\ top \in Nat
        OBVIOUS
    <2>3. discovery \in BOOLEAN /\ terminating \in BOOLEAN /\ deletedAt \in [Req -> Nat]
        OBVIOUS
    <2> QED
        BY <1>1, <2>1, <2>2, <2>3 DEF TypeOK
<1>3. CreatorTypes
    BY DEF CreatorTypes, Label
<1>4. RestInv /\ DeleteInv
    BY DEF RestInv, DeleteInv
<1>5. Updates = {} /\ Replacers = {}
    BY DEF Updates, Replacers
<1>6. GrowInv /\ NoLostUpdate
    BY <1>5 DEF GrowInv, NoLostUpdate
<1>7. CreatorInv
    BY DEF CreatorInv
<1> QED
    BY <1>2, <1>3, <1>4, <1>6, <1>7 DEF SafetyInv

\* A request's step keeps the types, and its answer true to its result.
LEMMA HandleTypes ==
    ASSUME TypeOK, RestInv, NEW r \in Req, Handle(r)
    PROVE  TypeOK' /\ RestInv'
<1> USE RestAssumption DEF TypeOK, RestInv, Answer, Goto, server
<1>1. CASE Arrive(r)
    BY <1>1 DEF Arrive, Request, Op, ObjectOp
<1>2. CASE DecodeBody(r)
    BY <1>2 DEF DecodeBody, ObjectOp
<1>3. CASE FindContext(r)
    BY <1>3 DEF FindContext, Dropped, ObjectOp
<1>4. CASE DiscoveryFails(r)
    BY <1>4 DEF DiscoveryFails
<1>5. CASE CallReads(r)
    BY <1>5 DEF CallReads, Returns
<1>6. CASE CallFails(r)
    BY <1>6 DEF CallFails, Returns
<1>7. CASE CallAbsent(r)
    BY <1>7 DEF CallAbsent, Returns
<1>8. CASE CallUpdates(r)
    BY <1>8 DEF CallUpdates, Returns
<1>9. CASE CallDeletes(r)
    <2>1. object' \in Nat /\ top' \in Nat /\ terminating' \in BOOLEAN
        <3>1. CASE Remove
            BY <3>1 DEF Remove
        <3>2. CASE Mark
            BY <3>2 DEF Mark
        <3>3. CASE UNCHANGED <<object, top, terminating>>
            BY <3>3
        <3> QED
            BY <1>9, <3>1, <3>2, <3>3 DEF CallDeletes
    <2>2. deletedAt' \in [Req -> Nat]
        BY <1>9, <2>1 DEF CallDeletes
    <2>3. /\ req[r].op = "delete" /\ pc[r] = "call"
          /\ effect' = [effect EXCEPT ![r] = "done"]
          /\ \E res \in {"ok", "error"} : Returns(r, res)
        BY <1>9 DEF CallDeletes
    <2> QED
        BY <2>1, <2>2, <2>3 DEF Returns
<1>10. CASE CallPanics(r)
    BY <1>10 DEF CallPanics, Dropped
<1>11. CASE Respond(r)
    BY <1>11 DEF Respond
<1> QED
    BY <1>1, <1>2, <1>3, <1>4, <1>5, <1>6, <1>7, <1>8, <1>9, <1>10, <1>11 DEF Handle

\* A request's step keeps what is known of versions: an update that is done
\* replaces the current version, which nobody has replaced before.
LEMMA HandleVersions ==
    ASSUME SafetyInv, NEW r \in Req, Handle(r), UNCHANGED creatorVars
    PROVE  GrowInv' /\ NoLostUpdate' /\ DeleteInv'
<1> USE DEF SafetyInv, TypeOK, CreatorTypes, Updates, Replacers, creatorVars
<1>1. CASE UNCHANGED <<req, effect, server>>
    <2>1. GrowInv' /\ NoLostUpdate'
        BY <1>1 DEF GrowInv, NoLostUpdate, server
    <2>2. DeleteInv'
        BY <1>1 DEF DeleteInv, server
    <2> QED
        BY <2>1, <2>2
<1>2. CASE CallAbsent(r) \/ CallDeletes(r)
    <2>1. /\ UNCHANGED req /\ top <= top' /\ top' \in Nat
          /\ object' \in {0, top'}
          /\ object' = 0 \/ terminating'
          /\ \A s \in Req : effect'[s] = "done" /\ req[s].op = "update" => effect[s] = "done"
          /\ \A s \in Req : deletedAt'[s] \in {deletedAt[s], top'}
        BY <1>2 DEF CallAbsent, CallDeletes, Returns, Remove, Mark, GrowInv
    <2>2. Updates' \subseteq Updates
        BY <2>1
    <2>3. \A s \in Req : req[s].base \in Nat
        BY RestAssumption DEF Request
    <2>4. GrowInv'
        <3>1. \A s \in Updates' : req[s].base # 0 => req[s].base < top'
            BY <2>1, <2>2, <2>3 DEF GrowInv
        <3>2. \A s \in Req : deletedAt'[s] <= top'
            BY <2>1 DEF GrowInv
        <3>3. \A c \in Creator :
                 /\ base[c] <= top' /\ written[c] <= top'
                 /\ written[c] # 0 => base[c] < written[c]
            BY <2>1 DEF GrowInv
        <3> QED
            BY <2>1, <3>1, <3>2, <3>3 DEF GrowInv
    <2>5. NoLostUpdate'
        <3>1. UNCHANGED <<base, Replacers>>
            OBVIOUS
        <3> HIDE DEF Updates, Replacers, SafetyInv
        <3>2. NoLostUpdate
            BY DEF SafetyInv
        <3> QED
            BY <2>1, <2>2, <3>1, <3>2 DEF NoLostUpdate
    <2>6. DeleteInv'
        BY <2>1 DEF DeleteInv
    <2> QED
        BY <2>4, <2>5, <2>6
<1>3. CASE CallUpdates(r)
    <2>1. /\ UNCHANGED <<req, terminating, deletedAt>> /\ object' = top + 1 /\ top' = top + 1
          /\ req[r].op = "update" /\ object # 0 /\ req[r].base \in {0, object}
          /\ \A s \in Req : s # r => effect'[s] = effect[s]
        BY <1>3 DEF CallUpdates, Returns
    <2>2. Updates' \subseteq Updates \cup {r}
        BY <2>1
    <2>3. \A s \in Req : req[s].base \in Nat
        BY RestAssumption DEF Request
    <2>4. GrowInv'
        <3>1. object' \in {0, top'} /\ top < top'
            BY <2>1
        <3>2. ASSUME NEW s \in Updates', req[s].base # 0 PROVE req[s].base < top'
            <4>1. CASE s \in Updates
                BY <2>1, <2>3, <3>2, <4>1 DEF GrowInv
            <4>2. CASE s = r
                BY <2>1, <2>3, <3>2, <4>2 DEF GrowInv
            <4> QED
                BY <2>2, <4>1, <4>2
        <3>3. \A c \in Creator :
                 /\ base'[c] <= top' /\ written'[c] <= top'
                 /\ written'[c] # 0 => base'[c] < written'[c]
            BY <2>1, <3>1 DEF GrowInv
        <3>4. \A s \in Req : deletedAt'[s] <= top'
            BY <2>1, <3>1 DEF GrowInv
        <3> QED
            BY <2>1, <3>1, <3>2, <3>3, <3>4 DEF GrowInv
    <2>5. NoLostUpdate'
        <3>1. req[r].base # 0 => \A s \in Updates : req[s].base # req[r].base
            BY <2>1, <2>3 DEF GrowInv
        <3>2. req[r].base # 0 => \A c \in Replacers : base[c] # req[r].base
            BY <2>1, <2>3 DEF GrowInv
        <3>3. UNCHANGED <<base, Replacers>>
            BY <2>1
        <3> HIDE DEF Updates, Replacers, SafetyInv
        <3>4. NoLostUpdate
            BY DEF SafetyInv
        <3> QED
            BY <2>1, <2>2, <3>1, <3>2, <3>3, <3>4 DEF NoLostUpdate
    <2>6. DeleteInv'
        BY <2>1 DEF DeleteInv
    <2> QED
        BY <2>4, <2>5, <2>6
<1> QED
    BY <1>1, <1>2, <1>3
    DEF Handle, Arrive, DecodeBody, FindContext, DiscoveryFails, CallReads, CallFails,
        CallPanics, Respond, Returns

\* So does the end of an object that was marked.
LEMMA FinalizeSafe ==
    ASSUME SafetyInv, Finalize, UNCHANGED creatorVars
    PROVE  SafetyInv'
<1>1. /\ UNCHANGED <<req, pc, result, reply, effect, top, deletedAt, discovery, creatorVars>>
      /\ object' = 0 /\ terminating' = FALSE
    BY DEF Finalize, Remove
<1>2. TypeOK' /\ RestInv'
    BY <1>1 DEF SafetyInv, TypeOK, RestInv
<1>3. CreatorTypes' /\ CreatorInv'
    BY <1>1 DEF SafetyInv, CreatorTypes, CreatorInv, creatorVars
<1>4. GrowInv' /\ NoLostUpdate' /\ DeleteInv'
    <2>1. UNCHANGED <<Updates, Replacers, base, written>>
        BY <1>1 DEF Updates, Replacers, creatorVars
    <2> QED
        BY <1>1, <2>1 DEF SafetyInv, GrowInv, NoLostUpdate, DeleteInv
<1> QED
    BY <1>2, <1>3, <1>4 DEF SafetyInv

\* A creator's step keeps the types, and its versions in step with its control.
LEMMA CreateControl ==
    ASSUME SafetyInv, NEW c \in Creator, Create(c)
    PROVE  CreatorTypes' /\ CreatorInv'
<1> USE DEF CreatorTypes, Label, At, To
<1>0. CreatorTypes /\ CreatorInv /\ object \in Nat /\ top \in Nat
    BY DEF SafetyInv, TypeOK
<1>1. CASE FetchContext(c) \/ FetchLabels(c) \/ Refused(c)
    BY <1>0, <1>1 DEF CreatorInv, FetchContext, FetchLabels, Refused
<1>2. CASE ReadResource(c)
    BY <1>0, <1>2 DEF CreatorInv, ReadResource
<1>3. CASE CreateResource(c) \/ ReplaceResource(c)
    BY <1>0, <1>3 DEF CreatorInv, CreateResource, ReplaceResource, Write
<1> QED
    BY <1>1, <1>2, <1>3 DEF Create

\* A creator replaces only the version it has read, if that is still current.
LEMMA CreateVersions ==
    ASSUME SafetyInv, NEW c \in Creator, Create(c)
    PROVE  GrowInv' /\ NoLostUpdate' /\ DeleteInv'
<1> USE DEF SafetyInv, TypeOK, CreatorTypes, Updates, Replacers, At, To, vars, server
<1>1. CASE UNCHANGED <<vars, base, written>>
    <2>1. GrowInv' /\ NoLostUpdate'
        BY <1>1 DEF GrowInv, NoLostUpdate
    <2>2. DeleteInv'
        BY <1>1 DEF DeleteInv
    <2> QED
        BY <2>1, <2>2
<1>2. CASE ReadResource(c)
    <2>1. /\ UNCHANGED <<req, effect, object, top, terminating, deletedAt, written>>
          /\ \A d \in Creator : d # c => base'[d] = base[d]
          /\ base'[c] \in {0, object}
          /\ written[c] = 0
        BY <1>2 DEF ReadResource, CreatorInv
    <2>2. UNCHANGED <<Updates, Replacers>> /\ \A d \in Replacers : d # c /\ base'[d] = base[d]
        BY <2>1
    <2>3. GrowInv'
        <3>1. ASSUME NEW d \in Creator
              PROVE  /\ base'[d] <= top /\ written[d] <= top
                     /\ written[d] # 0 => base'[d] < written[d]
            <4>1. CASE d = c
                BY <2>1, <4>1 DEF GrowInv
            <4>2. CASE d # c
                BY <2>1, <4>2 DEF GrowInv
            <4> QED
                BY <4>1, <4>2
        <3> HIDE DEF Updates, SafetyInv
        <3>2. GrowInv
            BY DEF SafetyInv
        <3> QED
            BY <2>1, <2>2, <3>1, <3>2 DEF GrowInv
    <2>4. NoLostUpdate'
        <3> HIDE DEF Updates, Replacers, SafetyInv
        <3>1. NoLostUpdate
            BY DEF SafetyInv
        <3> QED
            BY <2>1, <2>2, <3>1 DEF NoLostUpdate
    <2>5. DeleteInv'
        <3> HIDE DEF Replacers, SafetyInv
        <3>1. DeleteInv
            BY DEF SafetyInv
        <3> QED
            BY <2>1, <2>2, <3>1 DEF DeleteInv
    <2> QED
        BY <2>3, <2>4, <2>5
<1>3. CASE CreateResource(c) \/ ReplaceResource(c)
    <2>1. /\ object' = top + 1 /\ top' = top + 1
          /\ UNCHANGED <<req, effect, terminating, deletedAt, base>>
          /\ written' = [written EXCEPT ![c] = top + 1]
          /\ written[c] = 0
          /\ (object = 0 /\ base[c] = 0) \/ (object # 0 /\ object = base[c])
        BY <1>3 DEF CreateResource, ReplaceResource, Write, CreatorInv
    <2>2. /\ Updates' = Updates /\ Replacers' = Replacers \cup {c}
          /\ written'[c] = top + 1
          /\ \A d \in Creator : d # c => written'[d] = written[d]
        BY <2>1
    <2>3. GrowInv'
        BY <2>1, <2>2 DEF GrowInv, Request
    <2>4. NoLostUpdate'
        BY <2>1, <2>2 DEF GrowInv, NoLostUpdate, Request
    <2>5. DeleteInv'
        <3>1. \A r \in Req : deletedAt[r] < written'[c]
            BY <2>2 DEF GrowInv
        <3> HIDE DEF Updates, Replacers
        <3> QED
            BY <2>1, <2>2, <3>1 DEF DeleteInv, Replacers
    <2> QED
        BY <2>3, <2>4, <2>5
<1> QED
    BY <1>1, <1>2, <1>3 DEF Create, FetchContext, FetchLabels, Refused

\* Every step keeps the invariant.
LEMMA SafetyStep == SafetyInv /\ [TunnelNext]_allVars => SafetyInv'
<1> SUFFICES ASSUME SafetyInv, [TunnelNext]_allVars PROVE SafetyInv'
    OBVIOUS
<1>1. ASSUME NEW r \in Req, Handle(r), UNCHANGED creatorVars PROVE SafetyInv'
    <2>1. TypeOK' /\ RestInv'
        BY <1>1, HandleTypes DEF SafetyInv
    <2>2. GrowInv' /\ NoLostUpdate' /\ DeleteInv'
        BY <1>1, HandleVersions
    <2>3. CreatorTypes' /\ CreatorInv'
        BY <1>1 DEF SafetyInv, CreatorTypes, CreatorInv, creatorVars
    <2> QED
        BY <2>1, <2>2, <2>3 DEF SafetyInv
<1>2. ASSUME NEW c \in Creator, Create(c) PROVE SafetyInv'
    <2>1. UNCHANGED <<req, pc, result, reply, effect, terminating, deletedAt, discovery>>
          /\ object' \in Nat /\ top' \in Nat
        BY <1>2 DEF Create, FetchContext, FetchLabels, ReadResource, Refused,
            CreateResource, ReplaceResource, Write, vars, server, SafetyInv, TypeOK
    <2>2. TypeOK' /\ RestInv'
        BY <2>1 DEF SafetyInv, TypeOK, RestInv
    <2> QED
        BY <1>2, <2>2, CreateControl, CreateVersions DEF SafetyInv
<1>3. CASE UNCHANGED allVars
    <2> USE <1>3 DEF SafetyInv, allVars, creatorVars, vars, server
    <2>1. TypeOK' /\ CreatorTypes' /\ RestInv'
        BY DEF TypeOK, CreatorTypes, RestInv
    <2>2. GrowInv' /\ NoLostUpdate' /\ DeleteInv'
        BY DEF GrowInv, NoLostUpdate, DeleteInv, Updates, Replacers
    <2>3. CreatorInv'
        BY DEF CreatorInv
    <2> QED
        BY <2>1, <2>2, <2>3
<1> QED
    BY <1>1, <1>2, <1>3, FinalizeSafe DEF TunnelNext, AllDone

-----------------------------------------------------------------------------
(* The theorems                                                            *)

\* The inductive invariant of requests and creators together.
THEOREM SafetyInvariant == TunnelSpec => []SafetyInv
    BY InitSafe, SafetyStep, PTL DEF TunnelSpec

\* Requests keep their types whatever clients ask and creators do beside them;
\* in particular no handler is answered with a status the code does not send.
THEOREM TypeCorrect == TunnelSpec => []TypeOK
<1>1. SafetyInv => TypeOK
    BY DEF SafetyInv
<1> QED
    BY SafetyInvariant, <1>1, PTL

\* A REST client is told that its update or delete was carried out only if it
\* was, or if there was no such object.
THEOREM AnswersTrue == TunnelSpec => []SuccessIsTrue
<1>1. SafetyInv => SuccessIsTrue
    BY DEF SafetyInv, RestInv, SuccessIsTrue
<1> QED
    BY SafetyInvariant, <1>1, PTL

\* A creator goes on to its frp client only with a resource it has written.
THEOREM CreationTrue == TunnelSpec => []CreatedIsTrue
<1>1. SafetyInv => CreatedIsTrue
    BY DEF SafetyInv, CreatorInv, CreatedIsTrue
<1> QED
    BY SafetyInvariant, <1>1, PTL

\* Of any number of updates and replacements of one version, one is done.
THEOREM VersionReplacedOnce == TunnelSpec => []NoLostUpdate
<1>1. SafetyInv => NoLostUpdate
    BY DEF SafetyInv
<1> QED
    BY SafetyInvariant, <1>1, PTL

\* An object whose deletion was answered with 204 is gone or marked, or a
\* creator that found none has made a new one since.
THEOREM DeletionFinal == TunnelSpec => []DeletedIsDoomed
<1>1. SafetyInv => DeletedIsDoomed
    BY DEF SafetyInv, RestInv, DeleteInv, DeletedIsDoomed
<1> QED
    BY SafetyInvariant, <1>1, PTL
=============================================================================

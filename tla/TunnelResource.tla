--------------------------- MODULE TunnelResource ---------------------------
(***************************************************************************)
(* Creators of a KubeTunnel resource (kubefwd/kube/kube.go) next to the     *)
(* REST requests of RestApi, on the same object of the API server: a        *)
(* creator looks the service and its Pods up, reads the resource, and       *)
(* creates it or replaces what it has read.                                 *)
(***************************************************************************)
EXTENDS RestApi

CONSTANT Creator      \* processes that create the resource

VARIABLES
    pcOf,      \* each creator's next step, or how it ended
    base,      \* ResourceVersion of what it read
    written    \* the version it gave the resource, 0: none

creatorVars == <<pcOf, base, written>>
allVars == <<vars, creatorVars>>

TunnelInit ==
    /\ Init
    /\ pcOf = [c \in Creator |-> "context"]
    /\ base = [c \in Creator |-> 0]
    /\ written = [c \in Creator |-> 0]

-----------------------------------------------------------------------------
At(c, label) == pcOf[c] = label
To(c, label) == pcOf' = [pcOf EXCEPT ![c] = label]

\* GetServiceContextWithNamespace: the namespace, the service and its selector.
FetchContext(c) ==
    /\ At(c, "context")
    /\ \E l \in {"failed", "labels"} : To(c, l)
    /\ UNCHANGED <<vars, base, written>>

\* GetPodLabelsByLabelSelector.
FetchLabels(c) ==
    /\ At(c, "labels")
    /\ \E l \in {"failed", "get"} : To(c, l)
    /\ UNCHANGED <<vars, base, written>>

\* CreateKubeTunnelResource: any error of the read leads to a create.
ReadResource(c) ==
    /\ At(c, "get")
    /\ \/ To(c, "post") /\ UNCHANGED base
       \/ /\ object # 0
          /\ base' = [base EXCEPT ![c] = object]
          /\ \E l \in {"put", "failed"} : To(c, l)
    /\ UNCHANGED <<vars, written>>

\* The API server does it, on a marked object too; the answer may be lost.
Write(c) ==
    /\ object' = top + 1 /\ top' = top + 1
    /\ written' = [written EXCEPT ![c] = top + 1]
    /\ \E l \in {"created", "failed"} : To(c, l)
    /\ UNCHANGED <<req, pc, result, reply, effect, terminating, deletedAt, discovery, base>>

\* Mutant: the error of the request is assigned to a variable of its own.
Refused_Shadowed(c) ==
    /\ At(c, "post") \/ At(c, "put")
    /\ To(c, "created")
    /\ UNCHANGED <<vars, base, written>>

\* A conflict, a resource that exists or does not, or any other error.
Refused(c) ==
    /\ At(c, "post") \/ At(c, "put")
    /\ To(c, "failed")
    /\ UNCHANGED <<vars, base, written>>

CreateResource(c) == At(c, "post") /\ object = 0 /\ Write(c)

\* Mutant: the resource is sent without the version that was read.
ReplaceResource_NoVersion(c) == At(c, "put") /\ object # 0 /\ Write(c)

\* Mutant: a replacement that finds the resource gone creates it.
ReplaceResource_OrCreate(c) == At(c, "put") /\ object \in {0, base[c]} /\ Write(c)

ReplaceResource(c) == At(c, "put") /\ object # 0 /\ object = base[c] /\ Write(c)

Create(c) ==
    \/ FetchContext(c) \/ FetchLabels(c) \/ ReadResource(c) \/ Refused(c)
    \/ CreateResource(c) \/ ReplaceResource(c)

AllDone ==
    /\ \A r \in Req : pc[r] = "done"
    /\ \A c \in Creator : pcOf[c] \in {"failed", "created"}
    /\ UNCHANGED allVars

TunnelNext ==
    \/ \E r \in Req : Handle(r) /\ UNCHANGED creatorVars
    \/ Finalize /\ UNCHANGED creatorVars
    \/ \E c \in Creator : Create(c)
    \/ AllDone

TunnelSpec == TunnelInit /\ [][TunnelNext]_allVars

-----------------------------------------------------------------------------
(* Properties                                                              *)

\* A creator reports success only if the API server took its resource: no
\* refusal of a create or a replacement is lost on the way.
CreatedIsTrue ==
    \A c \in Creator : pcOf[c] = "created" => written[c] # 0

Updates == {r \in Req : req[r].op = "update" /\ effect[r] = "done"}
Replacers == {c \in Creator : written[c] # 0}

\* No two writers replace the same version of an object, be they updates of
\* REST clients or creators of the resource: each sends the version it has
\* read, so that all but one fail.
NoLostUpdate ==
    /\ \A r, s \in Updates : r # s /\ req[r].base # 0 => req[r].base # req[s].base
    /\ \A c, d \in Replacers : c # d /\ base[c] # 0 => base[c] # base[d]
    /\ \A r \in Updates, c \in Replacers : base[c] # 0 => req[r].base # base[c]

\* A delete answered with 204 has doomed the object: it is gone or marked for
\* deletion, however often updates and replacements write to it while it
\* lasts, unless a creator that found none has created it since the delete.
DeletedIsDoomed ==
    \A r \in Req : req[r].op = "delete" /\ reply[r] = 204 =>
        \/ object = 0 \/ terminating
        \/ \E c \in Replacers : base[c] = 0 /\ written[c] > deletedAt[r]
=============================================================================
